---- MODULE Spec2Model ----
(***************************************************************************)
(* Kitchen Companion: the ingredient pipeline (unit conversion, name       *)
(* normalisation, combination, zone classification and sorting).           *)
(*                                                                         *)
(* Representation.                                                         *)
(*   - A Python str is a sequence of one-character strings, so that        *)
(*     lower(), strip(), split(), "in" and "<" are computed, not assumed.  *)
(*   - An Optional value is <<>> (None) or <<v>>.                          *)
(*   - A float quantity is an integer number of thousandths (1.5 is 1500). *)
(*     Arithmetic is exact decimal arithmetic; round() is round-half-even, *)
(*     as Python's.                                                        *)
(*   - A multiplier is the fraction target_servings / base_servings,       *)
(*     [num, den].                                                         *)
(***************************************************************************)
EXTENDS Integers, Sequences, FiniteSets, TLC

VARIABLES
    zoneFile,           \* content of CATEGORIES_PATH, or NoFile
    zoneCache,          \* lru_cache slot of _load_zones: None or Some(rules)
    op,                 \* the operation that ran last
    quantity,           \* convert_to_metric: argument
    unit,               \* convert_to_metric: argument
    converted,          \* convert_to_metric: return value
    ingredients,        \* combine_ingredients: argument
    recipe_multipliers, \* combine_ingredients: argument
    combined,           \* combine_ingredients: return value
    pantryFile,         \* content of PANTRY_PATH, or None
    pantryCache,        \* lru_cache slot of _load_pantry_items
    call,               \* the other operations: None or Some(argument)
    returned,           \* the other operations: None or Some(return value)
    threads,            \* concurrent callers of _load_zones: their locals
    watcher             \* the RecipeWatcher, its handler and its timers

vars == <<zoneFile, zoneCache, op, quantity, unit, converted,
          ingredients, recipe_multipliers, combined,
          pantryFile, pantryCache, call, returned, threads, watcher>>

----------------------------------------------------------------------------
(* Optional values *)

None == <<>>

Some(v) == <<v>>

IsNone(o) == o = <<>>

Val(o) == o[1]

----------------------------------------------------------------------------
(* Strings *)

\* The characters in code-point order (the order str comparison uses).
Alphabet ==
    << "\n", " ", "#", "*", ",", "-", ".", "/", "0", "1", "2", "3", "4", "5", "6", "7", "8", "9", ":",
       "A", "B", "C", "D", "E", "F", "G", "H", "I", "J", "K", "L", "M",
       "N", "O", "P", "Q", "R", "S", "T", "U", "V", "W", "X", "Y", "Z",
       "a", "b", "c", "d", "e", "f", "g", "h", "i", "j", "k", "l", "m",
       "n", "o", "p", "q", "r", "s", "t", "u", "v", "w", "x", "y", "z" >>

CharCodes ==
    [c \in {Alphabet[i] : i \in 1..Len(Alphabet)} |->
        CHOOSE i \in 1..Len(Alphabet) : Alphabet[i] = c]

\* ord(c), up to the order
CharCode(c) == CharCodes[c]

IsUpper(c) == CharCode(c) >= CharCode("A") /\ CharCode(c) <= CharCode("Z")

LowerChar(c) ==
    IF IsUpper(c) THEN Alphabet[CharCode(c) + (CharCode("a") - CharCode("A"))]
    ELSE c

\* str.lower()
Lower(s) == [i \in 1..Len(s) |-> LowerChar(s[i])]

\* str.isspace(), and \s of re
IsSpace(c) == c \in {" ", "\n"}

RECURSIVE LStrip(_)
LStrip(s) == IF s # <<>> /\ IsSpace(Head(s)) THEN LStrip(Tail(s)) ELSE s

RECURSIVE RStrip(_)
RStrip(s) ==
    IF s # <<>> /\ IsSpace(s[Len(s)]) THEN RStrip(SubSeq(s, 1, Len(s) - 1))
    ELSE s

\* str.strip()
Strip(s) == RStrip(LStrip(s))

\* str.split(): the whitespace-separated words of s
RECURSIVE SplitFrom(_, _, _)
SplitFrom(s, word, words) ==
    IF s = <<>> THEN
        IF word = <<>> THEN words ELSE Append(words, word)
    ELSE IF IsSpace(Head(s)) THEN
        SplitFrom(Tail(s), <<>>,
                  IF word = <<>> THEN words ELSE Append(words, word))
    ELSE SplitFrom(Tail(s), Append(word, Head(s)), words)

Split(s) == SplitFrom(s, <<>>, <<>>)

\* " ".join(words)
RECURSIVE Join(_)
Join(words) ==
    IF words = <<>> THEN <<>>
    ELSE IF Len(words) = 1 THEN words[1]
    ELSE words[1] \o <<" ">> \o Join(Tail(words))

\* s.endswith(suffix)
EndsWith(s, suffix) ==
    /\ Len(s) >= Len(suffix)
    /\ SubSeq(s, Len(s) - Len(suffix) + 1, Len(s)) = suffix

\* pattern in s
Contains(s, pattern) ==
    \E i \in 0..(Len(s) - Len(pattern)) :
        SubSeq(s, i + 1, i + Len(pattern)) = pattern

\* a < b on str: lexicographic by code point
RECURSIVE StrLess(_, _)
StrLess(a, b) ==
    IF b = <<>> THEN FALSE
    ELSE IF a = <<>> THEN TRUE
    ELSE IF Head(a) = Head(b) THEN StrLess(Tail(a), Tail(b))
    ELSE CharCode(Head(a)) < CharCode(Head(b))

\* str(n) for an int n >= 0
RECURSIVE IntToStr(_)
IntToStr(n) ==
    IF n < 10 THEN <<Alphabet[CharCode("0") + n]>>
    ELSE IntToStr(n \div 10) \o <<Alphabet[CharCode("0") + (n % 10)]>>

----------------------------------------------------------------------------
(* Unit conversion: src/services/converter.py *)

\* Thousandths per unit of quantity.
Milli == 10 * 100

\* Ten-thousandths per unit of conversion factor.
FactorScale == 100 * 100

WEIGHT_UNITS == { <<"o", "z">>, <<"l", "b">>, <<"g">>, <<"k", "g">> }

\* The factors, in ten-thousandths: 28.3495 is 283495.
WEIGHT_TO_GRAMS(u) ==
    CASE u = <<"o", "z">> -> 283495
      [] u = <<"l", "b">> -> 4535920
      [] u = <<"g">>      -> 10000
      [] u = <<"k", "g">> -> 10000000

VOLUME_UNITS ==
    { <<"c", "u", "p">>, <<"t", "b", "s", "p">>, <<"t", "s", "p">>,
      <<"f", "l", " ", "o", "z">>, <<"m", "l">>, <<"l">> }

VOLUME_TO_ML(u) ==
    CASE u = <<"c", "u", "p">>           -> 2365880
      [] u = <<"t", "b", "s", "p">>      -> 147870
      [] u = <<"t", "s", "p">>           -> 49290
      [] u = <<"f", "l", " ", "o", "z">> -> 295740
      [] u = <<"m", "l">>                -> 10000
      [] u = <<"l">>                     -> 10000000

NON_CONVERTIBLE ==
    { <<"c", "l", "o", "v", "e">>, <<"b", "u", "n", "c", "h">>,
      <<"p", "i", "n", "c", "h">>, <<"t", "o", " ", "t", "a", "s", "t", "e">>,
      <<"c", "a", "n">>, <<"p", "a", "c", "k", "a", "g", "e">> }

METRIC_UNITS == { <<"g">>, <<"k", "g">>, <<"m", "l">>, <<"l">> }

WEIGHT_THRESHOLD == 1000

VOLUME_THRESHOLD == 1000

\* q * factor, exactly: q thousandths times f ten-thousandths is
\* hi + lo / FactorScale thousandths, 0 <= lo < FactorScale. (The product is
\* taken digit group by digit group, so that no intermediate value leaves
\* the 32-bit integers.)
Product(q, f) ==
    LET fl   == f % FactorScale
        a    == (q \div Milli) * fl
        rest == (a % 10) * Milli + (q % Milli) * fl
    IN  [hi |-> q * (f \div FactorScale) + a \div 10 + rest \div FactorScale,
         lo |-> rest % FactorScale]

\* round(): the integer nearest to whole + frac / (2 * half), ties to even
RoundHalfEven(whole, frac, half) ==
    IF frac > half \/ (frac = half /\ whole % 2 = 1) THEN whole + 1
    ELSE whole

\* Round0, were the value truncated (int()) and not rounded.
Round0Floor(p) == Milli * (p.hi \div Milli)

\* round(x, 0) of x = p.hi + p.lo / FactorScale thousandths; in thousandths
Round0(p) ==
    Milli * RoundHalfEven(p.hi \div Milli,
                          (p.hi % Milli) * FactorScale + p.lo,
                          (Milli * FactorScale) \div 2)

\* round(x / 1000, 2) of x = p.hi + p.lo / FactorScale thousandths;
\* in thousandths
RoundKilo2(p) ==
    10 * RoundHalfEven(p.hi \div FactorScale,
                       (p.hi % FactorScale) * FactorScale + p.lo,
                       (FactorScale * FactorScale) \div 2)

\* x >= threshold
AtLeast(p, threshold) == p.hi >= threshold * Milli

\* AlreadyMetric, were metric input sent through the factor tables and the
\* thresholds like any other unit.
AlreadyMetricRescaled(q, unit_lower) ==
    LET scaled == Product(q, IF unit_lower \in WEIGHT_UNITS
                             THEN WEIGHT_TO_GRAMS(unit_lower)
                             ELSE VOLUME_TO_ML(unit_lower))
        large  == IF unit_lower \in WEIGHT_UNITS THEN <<"k", "g">> ELSE <<"l">>
        small  == IF unit_lower \in WEIGHT_UNITS THEN <<"g">> ELSE <<"m", "l">>
    IN  IF AtLeast(scaled, WEIGHT_THRESHOLD)
        THEN [quantity |-> Some(RoundKilo2(scaled)), unit |-> Some(large)]
        ELSE [quantity |-> Some(Round0(scaled)), unit |-> Some(small)]

\* The "already metric" branch: the quantity as it is, the unit lowercased.
AlreadyMetric(q, unit_lower) == [quantity |-> Some(q), unit |-> Some(unit_lower)]

\* ConvertWeight, were the kilogram threshold left out.
ConvertWeightGramsOnly(q, unit_lower) ==
    [quantity |-> Some(Round0(Product(q, WEIGHT_TO_GRAMS(unit_lower)))),
     unit |-> Some(<<"g">>)]

\* The weight branch.
ConvertWeight(q, unit_lower) ==
    LET grams == Product(q, WEIGHT_TO_GRAMS(unit_lower))
    IN  IF AtLeast(grams, WEIGHT_THRESHOLD)
        THEN [quantity |-> Some(RoundKilo2(grams)), unit |-> Some(<<"k", "g">>)]
        ELSE [quantity |-> Some(Round0(grams)), unit |-> Some(<<"g">>)]

\* ConvertVolume, were litres spelled out.
ConvertVolumeLitres(q, unit_lower) ==
    LET ml == Product(q, VOLUME_TO_ML(unit_lower))
    IN  IF AtLeast(ml, VOLUME_THRESHOLD)
        THEN [quantity |-> Some(RoundKilo2(ml)),
              unit |-> Some(<<"l", "i", "t", "r", "e">>)]
        ELSE [quantity |-> Some(Round0(ml)), unit |-> Some(<<"m", "l">>)]

\* The volume branch.
ConvertVolume(q, unit_lower) ==
    LET ml == Product(q, VOLUME_TO_ML(unit_lower))
    IN  IF AtLeast(ml, VOLUME_THRESHOLD)
        THEN [quantity |-> Some(RoundKilo2(ml)), unit |-> Some(<<"l">>)]
        ELSE [quantity |-> Some(Round0(ml)), unit |-> Some(<<"m", "l">>)]

convert_to_metric(q, u) ==
    IF IsNone(q) \/ IsNone(u) THEN [quantity |-> q, unit |-> u]
    ELSE
        LET unit_lower == Strip(Lower(Val(u)))
        IN  IF unit_lower \in NON_CONVERTIBLE THEN [quantity |-> q, unit |-> u]
            ELSE IF unit_lower \in METRIC_UNITS THEN
                AlreadyMetric(Val(q), unit_lower)
            ELSE IF unit_lower \in WEIGHT_UNITS THEN
                ConvertWeight(Val(q), unit_lower)
            ELSE IF unit_lower \in VOLUME_UNITS THEN
                ConvertVolume(Val(q), unit_lower)
            ELSE [quantity |-> q, unit |-> u]

\* The digits after the decimal point of a float with m thousandths,
\* m in 1..999: "18" for 180, "005" for 5.
FractionDigits(m) ==
    LET digits == <<Alphabet[CharCode("0") + (m \div 100)],
                    Alphabet[CharCode("0") + ((m \div 10) % 10)],
                    Alphabet[CharCode("0") + (m % 10)]>>
    IN  IF m % 100 = 0 THEN SubSeq(digits, 1, 1)
        ELSE IF m % 10 = 0 THEN SubSeq(digits, 1, 2)
        ELSE digits

\* str(x) of a float x >= 0 that is not an integer
FloatToStr(q) == IntToStr(q \div Milli) \o <<".">> \o FractionDigits(q % Milli)

format_quantity(q, u) ==
    IF IsNone(q) /\ IsNone(u) THEN <<>>
    ELSE IF IsNone(q) THEN Val(u)
    ELSE IF IsNone(u) THEN
        IF Val(q) % Milli = 0 THEN IntToStr(Val(q) \div Milli)
        ELSE FloatToStr(Val(q))
    ELSE IF Val(q) % Milli = 0 THEN IntToStr(Val(q) \div Milli) \o Val(u)
    ELSE FloatToStr(Val(q)) \o Val(u)

----------------------------------------------------------------------------
(* Name normalisation: src/services/combiner.py *)

\* inflect's singular_noun, as far as the names used here go: the singular of
\* a word in -s (not -ss), None (inflect's False) for any other word.
singular_noun(word) ==
    IF Len(word) > 1 /\ EndsWith(word, <<"s">>) /\ ~EndsWith(word, <<"s", "s">>)
    THEN Some(SubSeq(word, 1, Len(word) - 1))
    ELSE None

singularize(word) ==
    IF EndsWith(Lower(word), <<"i", "e", "s">>) THEN
        SubSeq(word, 1, Len(word) - 3) \o <<"y">>
    ELSE
        LET singular == singular_noun(word)
        IN  IF ~IsNone(singular) THEN Val(singular) ELSE word

normalize_ingredient_name(name) ==
    LET words == Split(Strip(Lower(name)))
    IN  IF words # <<>> THEN
            Join([words EXCEPT ![Len(words)] = singularize(words[Len(words)])])
        ELSE Join(words)

----------------------------------------------------------------------------
(* Zones: src/services/categories.py *)

\* s.split(sep) for a one-character sep
RECURSIVE SplitOn(_, _, _, _)
SplitOn(s, sep, part, parts) ==
    IF s = <<>> THEN Append(parts, part)
    ELSE IF Head(s) = sep THEN SplitOn(Tail(s), sep, <<>>, Append(parts, part))
    ELSE SplitOn(Tail(s), sep, Append(part, Head(s)), parts)

\* The index of the first sep in s, 0 if there is none.
IndexOf(s, sep) ==
    IF \E i \in 1..Len(s) : s[i] = sep
    THEN CHOOSE i \in 1..Len(s) : s[i] = sep /\ \A j \in 1..(i - 1) : s[j] # sep
    ELSE 0

\* The patterns of one line: the stripped, lowercased, non-empty parts.
PatternList(patterns) ==
    LET parts == SplitOn(patterns, ",", <<>>, <<>>)
        kept  == SelectSeq(parts, LAMBDA p : Strip(p) # <<>>)
    IN  [i \in 1..Len(kept) |-> Lower(Strip(kept[i]))]

\* The rules one line of the file adds: none or one.
ZoneOfLine(raw) ==
    LET line  == Strip(raw)
        colon == IndexOf(line, ":")
    IN  IF line = <<>> \/ Head(line) = "#" \/ colon = 0 THEN <<>>
        ELSE
            LET zone == Strip(SubSeq(line, 1, colon - 1))
                pattern_list == PatternList(SubSeq(line, colon + 1, Len(line)))
            IN  IF pattern_list # <<>>
                THEN << [zone |-> zone, patterns |-> pattern_list] >>
                ELSE <<>>

RECURSIVE ParseZones(_)
ParseZones(lines) ==
    IF lines = <<>> THEN <<>>
    ELSE ZoneOfLine(Head(lines)) \o ParseZones(Tail(lines))

\* The body of _load_zones: the rules of the file, none if it is absent.
ReadZones(file) == IF IsNone(file) THEN <<>> ELSE ParseZones(Val(file))

\* _load_zones, were it not cached: the file is read at every call.
_load_zones_uncached(cache, file) == ReadZones(file)

\* _load_zones() under lru_cache(maxsize=1): the cached value if there is
\* one, the file's rules otherwise.
_load_zones(cache, file) == IF IsNone(cache) THEN ReadZones(file) ELSE Val(cache)

\* _load_zones() in steps, as a thread runs it. zones is a local of the
\* call: the cache slot is not written while the body runs.
CacheWhileLoadingShared(cache, zones) == Some(zones)

CacheWhileLoading(cache, zones) == cache

\* lru_cache stores the value the body returned, unless the slot was filled
\* by another call in the meantime.
CacheAfterLoading(cache, zones) == IF IsNone(cache) THEN Some(zones) ELSE cache

unzoned == <<"u", "n", "z", "o", "n", "e", "d">>

\* get_category, on the rule set zones
get_category(zones, ingredient_name) ==
    LET name_lower == Lower(ingredient_name)
        matches(i) == \E k \in 1..Len(zones[i].patterns) :
                          Contains(name_lower, zones[i].patterns[k])
    IN  IF \E i \in 1..Len(zones) : matches(i)
        THEN zones[CHOOSE i \in 1..Len(zones) :
                       matches(i) /\ \A j \in 1..(i - 1) : ~matches(j)].zone
        ELSE unzoned

\* get_category_order, were the last rule of the name the one returned.
get_category_order_last(zones, zone) ==
    IF \E i \in 1..Len(zones) : zones[i].zone = zone
    THEN (CHOOSE i \in 1..Len(zones) :
              zones[i].zone = zone
              /\ \A j \in (i + 1)..Len(zones) : zones[j].zone # zone) - 1
    ELSE Len(zones)

\* get_category_order, on the rule set zones (indices from 0)
get_category_order(zones, zone) ==
    IF \E i \in 1..Len(zones) : zones[i].zone = zone
    THEN (CHOOSE i \in 1..Len(zones) :
              zones[i].zone = zone /\ \A j \in 1..(i - 1) : zones[j].zone # zone) - 1
    ELSE Len(zones)

\* sort_key, were the name compared as written, not lowercased.
sort_key_as_written(zones, item) ==
    [order |-> get_category_order(zones, item.category), name |-> item.name]

sort_key(zones, item) ==
    [order |-> get_category_order(zones, item.category), name |-> Lower(item.name)]

\* a < b on the tuples sort_key returns
KeyLess(a, b) ==
    \/ a.order < b.order
    \/ a.order = b.order /\ StrLess(a.name, b.name)

\* sorted() is stable: x goes before the first item whose key is greater.
RECURSIVE InsertSorted(_, _, _)
InsertSorted(zones, sorted, x) ==
    IF sorted = <<>> THEN <<x>>
    ELSE IF KeyLess(sort_key(zones, x), sort_key(zones, Head(sorted)))
         THEN <<x>> \o sorted
         ELSE <<Head(sorted)>> \o InsertSorted(zones, Tail(sorted), x)

RECURSIVE SortedFrom(_, _, _)
SortedFrom(zones, items, sorted) ==
    IF items = <<>> THEN sorted
    ELSE SortedFrom(zones, Tail(items), InsertSorted(zones, sorted, Head(items)))

sort_by_category(zones, items) == SortedFrom(zones, items, <<>>)

----------------------------------------------------------------------------
(* Pantry: src/services/pantry.py *)

\* The body of _load_pantry_items: the stripped, lowercased lines of the
\* file that are neither blank nor comments; none if the file is absent.
RECURSIVE ParsePantry(_)
ParsePantry(lines) ==
    IF lines = <<>> THEN <<>>
    ELSE LET line == Strip(Head(lines))
         IN  (IF line # <<>> /\ Head(line) # "#" THEN <<Lower(line)>> ELSE <<>>)
                 \o ParsePantry(Tail(lines))

\* ReadPantry, were a pantry of salt assumed when the file is absent.
ReadPantryOrSalt(file) ==
    IF IsNone(file) THEN << <<"s", "a", "l", "t">> >> ELSE ParsePantry(Val(file))

ReadPantry(file) == IF IsNone(file) THEN <<>> ELSE ParsePantry(Val(file))

\* _load_pantry_items() under lru_cache(maxsize=1)
_load_pantry_items(cache, file) ==
    IF IsNone(cache) THEN ReadPantry(file) ELSE Val(cache)

\* is_pantry_item, were the name matched as written.
is_pantry_item_as_written(patterns, ingredient_name) ==
    \E k \in 1..Len(patterns) : Contains(ingredient_name, patterns[k])

\* is_pantry_item, on the patterns of the cache
is_pantry_item(patterns, ingredient_name) ==
    LET name_lower == Lower(ingredient_name)
    IN  \E k \in 1..Len(patterns) : Contains(name_lower, patterns[k])

\* sorted(names), names being a set of str
RECURSIVE SortedNames(_)
SortedNames(names) ==
    IF names = {} THEN <<>>
    ELSE LET least == CHOOSE n \in names :
                          \A other \in names \ {n} : StrLess(n, other)
         IN  <<least>> \o SortedNames(names \ {least})

\* The loop of filter_pantry_items: (shopping, pantry_names) after the
\* items, from (shopping, pantry_names) before them.
RECURSIVE FilterFrom(_, _, _, _)
FilterFrom(patterns, items, shopping, pantry_names) ==
    IF items = <<>> THEN [shopping |-> shopping, pantry_names |-> pantry_names]
    ELSE LET ing == Head(items)
         IN  IF is_pantry_item(patterns, ing.name)
             THEN FilterFrom(patterns, Tail(items), shopping,
                             pantry_names \cup {ing.name})
             ELSE FilterFrom(patterns, Tail(items), Append(shopping, ing),
                             pantry_names)

\* filter_pantry_items: (shopping, sorted(pantry_names))
filter_pantry_items(patterns, items) ==
    LET filtered == FilterFrom(patterns, items, <<>>, {})
    IN  [shopping |-> filtered.shopping,
         pantry_names |-> SortedNames(filtered.pantry_names)]

----------------------------------------------------------------------------
(* Combination: src/services/combiner.py *)

\* float division target_servings / base_servings
Ratio(num, den) == [num |-> num, den |-> den]

\* quantity * multiplier, in thousandths
Scaled(q, multiplier) == (q * multiplier.num) \div multiplier.den

\* recipe_multipliers.get(recipe_id, 1.0)
MultiplierOf(multipliers, recipe_id) ==
    IF recipe_id \in DOMAIN multipliers THEN multipliers[recipe_id]
    ELSE Ratio(1, 1)

\* One pass of the first loop: the line as it is stored in its group.
GroupedItem(ing, multipliers) ==
    LET multiplier == MultiplierOf(multipliers, ing.recipe_id)
        scaled == IF ~IsNone(ing.quantity)
                  THEN Some(Scaled(Val(ing.quantity), multiplier))
                  ELSE ing.quantity
        metric == convert_to_metric(scaled, ing.unit)
    IN  [quantity |-> metric.quantity, unit |-> metric.unit,
         name |-> ing.name, norm_name |-> normalize_ingredient_name(ing.name)]

\* GroupKey, were the lines grouped by name alone.
GroupKeyNameOnly(item) == <<item.norm_name, None>>

GroupKey(item) == <<item.norm_name, item.unit>>

\* AppendToGroup, were only consecutive lines grouped (as a groupby over
\* unsorted lines does).
AppendToGroupAdjacent(grouped, item) ==
    IF grouped # <<>> /\ grouped[Len(grouped)].key = <<item.norm_name, item.unit>>
    THEN [grouped EXCEPT ![Len(grouped)].items = Append(@, item)]
    ELSE Append(grouped, [key |-> <<item.norm_name, item.unit>>,
                          items |-> <<item>>])

\* grouped[key].append(item): grouped is the dict, as the sequence of its
\* (key, items) pairs in insertion order.
AppendToGroup(grouped, item) ==
    IF \E g \in 1..Len(grouped) : grouped[g].key = GroupKey(item)
    THEN LET g == CHOOSE g \in 1..Len(grouped) : grouped[g].key = GroupKey(item)
         IN  [grouped EXCEPT ![g].items = Append(@, item)]
    ELSE Append(grouped, [key |-> GroupKey(item), items |-> <<item>>])

\* GroupFrom, were a line of a recipe without a multiplier left out.
RECURSIVE GroupFromKnownOnly(_, _, _)
GroupFromKnownOnly(ings, multipliers, grouped) ==
    IF ings = <<>> THEN grouped
    ELSE GroupFromKnownOnly(Tail(ings), multipliers,
             IF Head(ings).recipe_id \in DOMAIN multipliers
             THEN AppendToGroup(grouped, GroupedItem(Head(ings), multipliers))
             ELSE grouped)

RECURSIVE GroupFrom(_, _, _)
GroupFrom(ings, multipliers, grouped) ==
    IF ings = <<>> THEN grouped
    ELSE GroupFrom(Tail(ings), multipliers,
                   AppendToGroup(grouped, GroupedItem(Head(ings), multipliers)))

Grouped(ings, multipliers) == GroupFrom(ings, multipliers, <<>>)

\* The inner loop: None until a quantity is met, then the running sum.
RECURSIVE SumFrom(_, _)
SumFrom(items, total_quantity) ==
    IF items = <<>> THEN total_quantity
    ELSE
        LET q == Head(items).quantity
        IN  SumFrom(Tail(items),
                    IF ~IsNone(q)
                    THEN Some((IF IsNone(total_quantity) THEN 0
                               ELSE Val(total_quantity)) + Val(q))
                    ELSE total_quantity)

\* TotalQuantity, were the test "if q:" and not "if q is not None:".
RECURSIVE SumTruthyFrom(_, _)
SumTruthyFrom(items, total_quantity) ==
    IF items = <<>> THEN total_quantity
    ELSE
        LET q == Head(items).quantity
        IN  SumTruthyFrom(Tail(items),
                          IF ~IsNone(q) /\ Val(q) # 0
                          THEN Some((IF IsNone(total_quantity) THEN 0
                                     ELSE Val(total_quantity)) + Val(q))
                          ELSE total_quantity)

TotalQuantityTruthy(items) == SumTruthyFrom(items, None)

TotalQuantity(items) == SumFrom(items, None)

\* DisplayName, were the last occurrence's name used.
DisplayNameLast(items) == items[Len(items)].name

\* items[0]["name"]
DisplayName(items) == items[1].name

\* CombinedEntry, were the total converted again after the sum.
CombinedEntryReconverted(zones, group) ==
    LET display_name == DisplayName(group.items)
        summed == TotalQuantity(group.items)
        total == IF ~IsNone(summed) /\ ~IsNone(group.key[2])
                    /\ Val(group.key[2]) \in METRIC_UNITS
                 THEN AlreadyMetricRescaled(Val(summed), Val(group.key[2]))
                 ELSE [quantity |-> summed, unit |-> group.key[2]]
        quantity_str == format_quantity(total.quantity, total.unit)
    IN  [name |-> display_name,
         quantity |-> total.quantity,
         unit |-> total.unit,
         display |-> IF quantity_str # <<>>
                     THEN display_name \o <<" ">> \o quantity_str
                     ELSE display_name,
         category |-> get_category(zones, display_name)]

\* One pass of the second loop: the entry of one group.
CombinedEntry(zones, group) ==
    LET total_quantity == TotalQuantity(group.items)
        display_name == DisplayName(group.items)
        group_unit == group.key[2]
        quantity_str == format_quantity(total_quantity, group_unit)
    IN  [name |-> display_name,
         quantity |-> total_quantity,
         unit |-> group_unit,
         display |-> IF quantity_str # <<>>
                     THEN display_name \o <<" ">> \o quantity_str
                     ELSE display_name,
         category |-> get_category(zones, display_name)]

\* combine_ingredients, with _load_zones() returning zones
combine_ingredients(ings, multipliers, zones) ==
    LET grouped == Grouped(ings, multipliers)
    IN  sort_by_category(zones,
            [g \in 1..Len(grouped) |-> CombinedEntry(zones, grouped[g])])

----------------------------------------------------------------------------
(* The shopping list: generate_shopping_list of src/api/routes.py *)

\* Multiplier, were the quantities of a recipe of no servings dropped.
MultiplierOrZero(target_servings, servings) ==
    IF servings > 0 THEN Ratio(target_servings, servings) ELSE Ratio(0, 1)

\* The multiplier of one selection of a recipe that exists.
Multiplier(target_servings, servings) ==
    IF servings > 0 THEN Ratio(target_servings, servings) ELSE Ratio(1, 1)

\* The loop over the selections: the dict multipliers after them. recipes
\* is the dict of the selected recipes that exist, id to servings.
RECURSIVE MultipliersFrom(_, _, _)
MultipliersFrom(selections, recipes, multipliers) ==
    IF selections = <<>> THEN multipliers
    ELSE LET sel == Head(selections)
         IN  MultipliersFrom(Tail(selections), recipes,
                 IF sel.recipe_id \in DOMAIN recipes
                 THEN (sel.recipe_id :>
                           Multiplier(sel.target_servings,
                                      recipes[sel.recipe_id]))
                      @@ multipliers
                 ELSE multipliers)

\* get_ingredients_for_recipes(recipe_ids): the rows of these recipes, in
\* the order of the table.
RECURSIVE get_ingredients_for_recipes(_, _)
get_ingredients_for_recipes(rows, recipe_ids) ==
    IF rows = <<>> THEN <<>>
    ELSE (IF Head(rows).recipe_id \in recipe_ids THEN <<Head(rows)>> ELSE <<>>)
         \o get_ingredients_for_recipes(Tail(rows), recipe_ids)

\* AdditionalEntry, were the item not classified.
AdditionalEntryUnzoned(zones, item) ==
    [name |-> item, quantity |-> None, unit |-> None, display |-> item,
     category |-> unzoned]

\* The entry appended for one additional item.
AdditionalEntry(zones, item) ==
    [name |-> item, quantity |-> None, unit |-> None, display |-> item,
     category |-> get_category(zones, item)]

\* generate_shopping_list, on the tables db, with _load_zones() returning
\* zones and _load_pantry_items() returning patterns: what it passes to
\* combine_ingredients, what that returns, and the two lists of the
\* response (formatted_text, the rendering of these lists, is left out).
generate_shopping_list(request, db, zones, patterns) ==
    IF request.selections = <<>> /\ request.additional_items = <<>>
    THEN [ingredients |-> <<>>, multipliers |-> <<>>, combined |-> <<>>,
          shopping_items |-> <<>>, pantry_items |-> <<>>]
    ELSE
        LET recipe_ids == {request.selections[i].recipe_id :
                               i \in 1..Len(request.selections)}
            recipes == [id \in recipe_ids \cap DOMAIN db.recipes |->
                            db.recipes[id]]
            multipliers == MultipliersFrom(request.selections, recipes, <<>>)
            ingredient_dicts ==
                get_ingredients_for_recipes(db.rows, recipe_ids)
            combined_items ==
                IF request.selections # <<>>
                THEN combine_ingredients(ingredient_dicts, multipliers, zones)
                ELSE <<>>
            filtered == filter_pantry_items(patterns, combined_items)
            additional ==
                [i \in 1..Len(request.additional_items) |->
                     AdditionalEntry(zones, request.additional_items[i])]
        IN  [ingredients |-> ingredient_dicts,
             multipliers |-> multipliers,
             combined |-> combined_items,
             shopping_items |->
                 sort_by_category(zones, filtered.shopping \o additional),
             pantry_items |-> filtered.pantry_names]

----------------------------------------------------------------------------
(* combine_ingredients, call by call of _load_zones() *)

\* sorted(items, key=sort_key), the keys being computed: keyed is the list
\* of (item, key); x goes before the first whose key is greater.
RECURSIVE InsertKeyed(_, _)
InsertKeyed(sorted, x) ==
    IF sorted = <<>> THEN <<x>>
    ELSE IF KeyLess(x.key, Head(sorted).key) THEN <<x>> \o sorted
    ELSE <<Head(sorted)>> \o InsertKeyed(Tail(sorted), x)

RECURSIVE SortedKeyedFrom(_, _)
SortedKeyedFrom(keyed, sorted) ==
    IF keyed = <<>> THEN sorted
    ELSE SortedKeyedFrom(Tail(keyed), InsertKeyed(sorted, Head(keyed)))

SortedByKey(items, keys) ==
    LET sorted == SortedKeyedFrom([i \in 1..Len(items) |->
                                       [item |-> items[i], key |-> keys[i]]],
                                  <<>>)
    IN  [i \in 1..Len(sorted) |-> sorted[i].item]

\* The frame of a call of combine_ingredients that has grouped its lines:
\* pc is "category" in the second loop, "key_category" and "key_order" in
\* sort_key (the default of item.get is evaluated, then the order is
\* looked up), "sorted" after the return; keys are the keys computed.
NewFrame == [pc |-> "category", keys |-> <<>>]

----------------------------------------------------------------------------
(* The watcher: src/services/watcher.py *)

\* A threading.Timer: where its thread is ("waiting" for the interval,
\* "running" the function, "returned"), its Event finished, and whether it
\* has called the function. As history: preempted, it was cancelled while
\* it was waiting; late, it called the function after stop() had returned.
NewTimer ==
    [state |-> "waiting", finished |-> FALSE, called |-> FALSE,
     preempted |-> FALSE, late |-> FALSE]

\* Timer.cancel(): finished.set()
cancel(timer) ==
    [timer EXCEPT !.finished = TRUE,
                  !.preempted = @ \/ (timer.state = "waiting"
                                      /\ ~timer.finished)]

\* RecipeWatcher.__init__ and RecipeFileHandler.__init__: _debounce_timer
\* is 0 (None) or the number of a timer; stop is where a call of stop() is.
NewWatcher ==
    [_started |-> FALSE, observer |-> "new", _debounce_timer |-> 0,
     timers |-> <<>>, stop |-> "idle"]

\* _trigger_callback, were the pending timer not cancelled.
_trigger_callback_uncancelled(w) ==
    [w EXCEPT !.timers = Append(w.timers, NewTimer),
              !._debounce_timer = Len(w.timers) + 1]

\* _trigger_callback: under the lock, the timer of the handler is
\* cancelled, and a new one is made, kept and started.
_trigger_callback(w) ==
    LET cancelled ==
            IF w._debounce_timer # 0
            THEN [w.timers EXCEPT ![w._debounce_timer] = cancel(@)]
            ELSE w.timers
    IN  [w EXCEPT !.timers = Append(cancelled, NewTimer),
                  !._debounce_timer = Len(w.timers) + 1]

\* The position of the last "." of name, 0 if there is none
RECURSIVE LastDot(_)
LastDot(name) ==
    IF name = <<>> THEN 0
    ELSE IF name[Len(name)] = "." THEN Len(name)
    ELSE LastDot(SubSeq(name, 1, Len(name) - 1))

\* Path(name).suffix: from the last ".", unless the name starts or ends
\* with it
Suffix(name) ==
    IF LastDot(name) > 1 /\ LastDot(name) < Len(name)
    THEN SubSeq(name, LastDot(name), Len(name))
    ELSE <<>>

\* str.startswith
StartsWith(s, prefix) ==
    Len(s) >= Len(prefix) /\ SubSeq(s, 1, Len(prefix)) = prefix

\* on_any_event: the event of a recipe file triggers, the others are
\* ignored. event.name is the file name of event.src_path.
on_any_event(w, event) ==
    IF event.is_directory THEN w
    ELSE IF Suffix(event.name) # <<".", "m", "d">> THEN w
    ELSE IF StartsWith(event.name, <<"0", "0", "-">>) THEN w
    ELSE IF StartsWith(event.name, <<".">>) \/ EndsWith(event.name, <<"~">>)
    THEN w
    ELSE _trigger_callback(w)

----------------------------------------------------------------------------
(* Regular expressions: the re module, as far as parser.py uses it *)

\* The nodes of a pattern.
Chr(set) == [k |-> "chr", set |-> set]
Cat(rs) == [k |-> "cat", rs |-> rs]
Alt(rs) == [k |-> "alt", rs |-> rs]
Star(r) == [k |-> "star", r |-> r, greedy |-> TRUE]
LazyStar(r) == [k |-> "star", r |-> r, greedy |-> FALSE]
Plus(r) == Cat(<<r, Star(r)>>)
Opt(r) == Alt(<<r, Cat(<<>>)>>)
Group(n, r) == [k |-> "grp", n |-> n, r |-> r]
LookAhead(r) == [k |-> "look", r |-> r]
\* ^ and $, without and with re.MULTILINE; \Z
Bol == [k |-> "bol", multiline |-> FALSE]
BolM == [k |-> "bol", multiline |-> TRUE]
Eol == [k |-> "eol", multiline |-> FALSE]
EolM == [k |-> "eol", multiline |-> TRUE]
Eos == [k |-> "eos"]

Characters == {Alphabet[i] : i \in 1..Len(Alphabet)}

\* \d, \s, and . without and with re.DOTALL
Digit == Chr({"0", "1", "2", "3", "4", "5", "6", "7", "8", "9"})
Space == Chr({c \in Characters : IsSpace(c)})
AnyChar == Chr(Characters \ {"\n"})
AnyCharAll == Chr(Characters)

\* A literal, and a literal under re.IGNORECASE
Lit(str) == Cat([i \in 1..Len(str) |-> Chr({str[i]})])
LitI(str) ==
    Cat([i \in 1..Len(str) |->
            Chr({c \in Characters : LowerChar(c) = LowerChar(str[i])})])

\* The number of characters of the set that s has from pos on.
Run(set, s, pos) ==
    CHOOSE n \in 0..(Len(s) + 1 - pos) :
        /\ \A i \in pos..(pos + n - 1) : s[i] \in set
        /\ pos + n <= Len(s) => s[pos + n] \notin set

\* The matches of r in s from the state st (position, groups), in the
\* order in which backtracking tries them: the first is the match.
RECURSIVE Match(_, _, _)
RECURSIVE MatchEach(_, _, _)
RECURSIVE MatchCat(_, _, _)
RECURSIVE MatchAlt(_, _, _)

\* The matches of r from each of the states, in the order of the states
\* (by halves: the list can be long).
MatchEach(r, s, sts) ==
    IF sts = <<>> THEN <<>>
    ELSE IF Len(sts) = 1 THEN Match(r, s, sts[1])
    ELSE LET half == Len(sts) \div 2
         IN  MatchEach(r, s, SubSeq(sts, 1, half))
                 \o MatchEach(r, s, SubSeq(sts, half + 1, Len(sts)))

MatchCat(rs, s, sts) ==
    IF rs = <<>> \/ sts = <<>> THEN sts
    ELSE MatchCat(Tail(rs), s, MatchEach(Head(rs), s, sts))

MatchAlt(rs, s, st) ==
    IF rs = <<>> THEN <<>>
    ELSE Match(Head(rs), s, st) \o MatchAlt(Tail(rs), s, st)

Match(r, s, st) ==
    CASE r.k = "chr" ->
            IF st.pos <= Len(s) /\ s[st.pos] \in r.set
            THEN << [st EXCEPT !.pos = @ + 1] >> ELSE <<>>
      [] r.k = "cat" -> MatchCat(r.rs, s, <<st>>)
      [] r.k = "alt" -> MatchAlt(r.rs, s, st)
      [] r.k = "star" /\ r.r.k = "chr" ->
            \* a run of n characters: n, n - 1, ... 0 of them, or 0, 1, ... n
            LET n == Run(r.r.set, s, st.pos)
            IN  [j \in 1..(n + 1) |->
                    [st EXCEPT !.pos = @ + (IF r.greedy THEN n + 1 - j ELSE j - 1)]]
      [] r.k = "star" /\ r.r.k # "chr" ->
            LET once == SelectSeq(Match(r.r, s, st), LAMBDA x : x.pos > st.pos)
                more == MatchEach(r, s, once)
            IN  IF r.greedy THEN more \o <<st>> ELSE <<st>> \o more
      [] r.k = "grp" ->
            LET inner == Match(r.r, s, st)
            IN  [j \in 1..Len(inner) |->
                    [inner[j] EXCEPT !.caps[r.n] = <<st.pos, inner[j].pos>>]]
      [] r.k = "look" -> IF Match(r.r, s, st) # <<>> THEN <<st>> ELSE <<>>
      [] r.k = "bol" ->
            IF st.pos = 1 \/ (r.multiline /\ s[st.pos - 1] = "\n")
            THEN <<st>> ELSE <<>>
      [] r.k = "eol" ->
            IF \/ st.pos = Len(s) + 1
               \/ st.pos = Len(s) /\ s[st.pos] = "\n"
               \/ r.multiline /\ s[st.pos] = "\n"
            THEN <<st>> ELSE <<>>
      [] r.k = "eos" -> IF st.pos = Len(s) + 1 THEN <<st>> ELSE <<>>

\* The state a match starts in: no group has matched.
MatchStart(pos, ngroups) == [pos |-> pos, from |-> pos, caps |-> [g \in 1..ngroups |-> None]]

\* pattern.match(s): None or Some(match)
ReMatch(r, ngroups, s) ==
    LET found == Match(r, s, MatchStart(1, ngroups))
    IN  IF found = <<>> THEN None ELSE Some(Head(found))

\* pattern.search(s): the match at the first position that has one
RECURSIVE SearchFrom(_, _, _, _)
SearchFrom(r, ngroups, s, pos) ==
    IF pos > Len(s) + 1 THEN None
    ELSE LET found == Match(r, s, MatchStart(pos, ngroups))
         IN  IF found = <<>> THEN SearchFrom(r, ngroups, s, pos + 1)
             ELSE Some(Head(found))

ReSearch(r, ngroups, s) == SearchFrom(r, ngroups, s, 1)

\* match.group(n): None if the group took no part in the match
GroupOf(s, m, n) ==
    IF IsNone(m.caps[n]) THEN None
    ELSE Some(SubSeq(s, m.caps[n][1], m.caps[n][2] - 1))

\* re.sub(pattern, "", s) for a pattern that matches at most once in s
ReSubOnce(r, s) ==
    LET m == ReSearch(r, 0, s)
    IN  IF IsNone(m) THEN s
        ELSE SubSeq(s, 1, Val(m).from - 1) \o SubSeq(s, Val(m).pos, Len(s))

----------------------------------------------------------------------------
(* Parsing: src/services/parser.py *)

\* ^Servings:\s*(\d+), IGNORECASE | MULTILINE
SERVINGS_PATTERN ==
    Cat(<<BolM, LitI(<<"S", "e", "r", "v", "i", "n", "g", "s", ":">>),
          Star(Space), Group(1, Plus(Digit))>>)

\* ^#\s+(.+)$, MULTILINE
TITLE_PATTERN ==
    Cat(<<BolM, Lit(<<"#">>), Plus(Space), Group(1, Plus(AnyChar)), EolM>>)

\* ##\s*Ingredients\s*\n(.*?)(?=\n##|\Z), IGNORECASE | DOTALL
INGREDIENTS_SECTION ==
    Cat(<<Lit(<<"#", "#">>), Star(Space),
          LitI(<<"I", "n", "g", "r", "e", "d", "i", "e", "n", "t", "s">>),
          Star(Space), Lit(<<"\n">>), Group(1, LazyStar(AnyCharAll)),
          LookAhead(Alt(<<Lit(<<"\n", "#", "#">>), Eos>>))>>)

\* Thousandths: 0.25, 0.333, 0.5, 0.667, 0.75
FRACTION_MAP ==
    (<<"1", "/", "4">> :> 250) @@ (<<"1", "/", "3">> :> 333) @@
    (<<"1", "/", "2">> :> 500) @@ (<<"2", "/", "3">> :> 667) @@
    (<<"3", "/", "4">> :> 750)

\* \d+ and \d+(?:\.\d+)? and \d+/\d+
Digits == Plus(Digit)
Number == Cat(<<Digits, Opt(Cat(<<Lit(<<".">>), Digits>>))>>)
Fraction == Cat(<<Digits, Lit(<<"/">>), Digits>>)

\* The units of QUANTITY_PATTERN, in the order of the alternation.
UnitWords ==
    Alt(<<Cat(<<LitI(<<"f", "l">>), Star(Space), LitI(<<"o", "z">>)>>),
          LitI(<<"o", "z">>),
          LitI(<<"l", "b">>),
          Cat(<<LitI(<<"l", "b">>),
               Opt(LitI(<<"s">>))>>),
          Cat(<<LitI(<<"p", "o", "u", "n", "d">>),
               Opt(LitI(<<"s">>))>>),
          LitI(<<"g">>),
          LitI(<<"k", "g">>),
          LitI(<<"m", "l">>),
          LitI(<<"l">>),
          Cat(<<LitI(<<"l", "i", "t", "e", "r">>),
               Opt(LitI(<<"s">>))>>),
          Cat(<<LitI(<<"c", "u", "p">>),
               Opt(LitI(<<"s">>))>>),
          LitI(<<"t", "b", "s", "p">>),
          Cat(<<LitI(<<"t", "a", "b", "l", "e", "s", "p", "o", "o", "n">>),
               Opt(LitI(<<"s">>))>>),
          LitI(<<"t", "s", "p">>),
          Cat(<<LitI(<<"t", "e", "a", "s", "p", "o", "o", "n">>),
               Opt(LitI(<<"s">>))>>),
          Cat(<<LitI(<<"c", "l", "o", "v", "e">>),
               Opt(LitI(<<"s">>))>>),
          LitI(<<"b", "u", "n", "c", "h">>),
          LitI(<<"p", "i", "n", "c", "h">>),
          LitI(<<"c", "a", "n">>),
          Cat(<<LitI(<<"c", "a", "n">>),
               Opt(LitI(<<"s">>))>>),
          LitI(<<"p", "a", "c", "k", "a", "g", "e">>),
          LitI(<<"p", "k", "g">>)>>)

\* Groups 1-2: mixed fraction; 3: fraction; 4-5: range; 6: number;
\* 7: unit; 8: name. IGNORECASE.
QUANTITY_PATTERN ==
    Cat(<<Bol, Opt(Cat(<<Chr({"-", "*"}), Star(Space)>>)),
          Opt(Alt(<<Cat(<<Group(1, Digits), Plus(Space), Group(2, Fraction)>>),
                    Group(3, Fraction),
                    Cat(<<Group(4, Number), Star(Space), Lit(<<"-">>),
                          Star(Space), Group(5, Number)>>),
                    Group(6, Number)>>)),
          Star(Space),
          Opt(Group(7, Cat(<<UnitWords, Alt(<<Space, Eol>>)>>))),
          Group(8, Plus(AnyChar)), Eol>>)

UNIT_ALIASES ==
    (<<"t", "b", "s", "p">>
        :> <<"t", "b", "s", "p">>) @@
    (<<"t", "a", "b", "l", "e", "s", "p", "o", "o", "n">>
        :> <<"t", "b", "s", "p">>) @@
    (<<"t", "a", "b", "l", "e", "s", "p", "o", "o", "n", "s">>
        :> <<"t", "b", "s", "p">>) @@
    (<<"t", "s", "p">>
        :> <<"t", "s", "p">>) @@
    (<<"t", "e", "a", "s", "p", "o", "o", "n">>
        :> <<"t", "s", "p">>) @@
    (<<"t", "e", "a", "s", "p", "o", "o", "n", "s">>
        :> <<"t", "s", "p">>) @@
    (<<"c", "u", "p">>
        :> <<"c", "u", "p">>) @@
    (<<"c", "u", "p", "s">>
        :> <<"c", "u", "p">>) @@
    (<<"o", "z">>
        :> <<"o", "z">>) @@
    (<<"f", "l", " ", "o", "z">>
        :> <<"f", "l", " ", "o", "z">>) @@
    (<<"l", "b">>
        :> <<"l", "b">>) @@
    (<<"l", "b", "s">>
        :> <<"l", "b">>) @@
    (<<"p", "o", "u", "n", "d">>
        :> <<"l", "b">>) @@
    (<<"p", "o", "u", "n", "d", "s">>
        :> <<"l", "b">>) @@
    (<<"g">>
        :> <<"g">>) @@
    (<<"k", "g">>
        :> <<"k", "g">>) @@
    (<<"m", "l">>
        :> <<"m", "l">>) @@
    (<<"l">>
        :> <<"l">>) @@
    (<<"l", "i", "t", "e", "r">>
        :> <<"l">>) @@
    (<<"l", "i", "t", "e", "r", "s">>
        :> <<"l">>) @@
    (<<"c", "l", "o", "v", "e">>
        :> <<"c", "l", "o", "v", "e">>) @@
    (<<"c", "l", "o", "v", "e", "s">>
        :> <<"c", "l", "o", "v", "e">>) @@
    (<<"b", "u", "n", "c", "h">>
        :> <<"b", "u", "n", "c", "h">>) @@
    (<<"p", "i", "n", "c", "h">>
        :> <<"p", "i", "n", "c", "h">>) @@
    (<<"c", "a", "n">>
        :> <<"c", "a", "n">>) @@
    (<<"c", "a", "n", "s">>
        :> <<"c", "a", "n">>) @@
    (<<"p", "a", "c", "k", "a", "g", "e">>
        :> <<"p", "a", "c", "k", "a", "g", "e">>) @@
    (<<"p", "k", "g">>
        :> <<"p", "a", "c", "k", "a", "g", "e">>)

\* int(s) for a string of digits
RECURSIVE StrToInt(_)
StrToInt(s) ==
    IF s = <<>> THEN 0
    ELSE 10 * StrToInt(SubSeq(s, 1, Len(s) - 1))
         + (CharCode(s[Len(s)]) - CharCode("0"))

\* float(s) for digits with an optional fraction part, in thousandths; the
\* fraction part has at most three digits in the lines parsed here.
StrToFloat(s) ==
    LET dot == IndexOf(s, ".")
    IN  IF dot = 0 THEN Milli * StrToInt(s)
        ELSE LET frac == SubSeq(s, dot + 1, Len(s))
                 padded == SubSeq(frac \o <<"0", "0", "0">>, 1, 3)
             IN  Milli * StrToInt(SubSeq(s, 1, dot - 1)) + StrToInt(padded)

\* parse_fraction, in thousandths: the table, or the division (exact for
\* the fractions parsed here), or 0.0 at ZeroDivisionError.
parse_fraction(fraction_str) ==
    IF fraction_str \in DOMAIN FRACTION_MAP THEN FRACTION_MAP[fraction_str]
    ELSE LET slash == IndexOf(fraction_str, "/")
             num == StrToFloat(SubSeq(fraction_str, 1, slash - 1))
             denom == StrToFloat(SubSeq(fraction_str, slash + 1,
                                        Len(fraction_str)))
         IN  IF denom = 0 THEN 0 ELSE (Milli * num) \div denom

\* ,\s*$
TRAILING_COMMA == Cat(<<Lit(<<",">>), Star(Space), Eol>>)

\* A str is truthy when it is not empty; a group that did not match is None.
Truthy(group) == ~IsNone(group) /\ Val(group) # <<>>

\* parse_quantity: (quantity, unit, name) of a match of QUANTITY_PATTERN
parse_quantity(line, m) ==
    LET groups == [n \in 1..8 |-> GroupOf(line, m, n)]
        parsed_quantity ==
            IF Truthy(groups[1]) /\ Truthy(groups[2])
            THEN Some(StrToFloat(Val(groups[1])) + parse_fraction(Val(groups[2])))
            ELSE IF Truthy(groups[3])
            THEN Some(parse_fraction(Val(groups[3])))
            ELSE IF Truthy(groups[4]) /\ Truthy(groups[5])
            THEN Some(StrToFloat(Val(groups[5])))
            ELSE IF Truthy(groups[6])
            THEN Some(StrToFloat(Val(groups[6])))
            ELSE None
        unit_raw == Lower(Strip(Val(groups[7])))
        parsed_unit ==
            IF Truthy(groups[7])
            THEN Some(IF unit_raw \in DOMAIN UNIT_ALIASES
                      THEN UNIT_ALIASES[unit_raw] ELSE unit_raw)
            ELSE None
        name == IF Truthy(groups[8]) THEN Strip(Val(groups[8])) ELSE <<>>
    IN  [quantity |-> parsed_quantity, unit |-> parsed_unit,
         name |-> ReSubOnce(TRAILING_COMMA, name)]

ParsedIngredient(q, u, name, raw_text) ==
    [quantity |-> q, unit |-> u, name |-> name, raw_text |-> raw_text]

to_taste == <<"t", "o", " ", "t", "a", "s", "t", "e">>

\* \s*to\s+taste.*$, IGNORECASE
TO_TASTE ==
    Cat(<<Star(Space), LitI(<<"t", "o">>), Plus(Space),
          LitI(<<"t", "a", "s", "t", "e">>), Star(AnyChar), Eol>>)

\* ^[-*]\s*
BULLET == Cat(<<Bol, Chr({"-", "*"}), Star(Space)>>)

\* The name of the fallback: the line without its bullet.
Unbulleted(line) == Strip(ReSubOnce(BULLET, line))

\* The "to taste" branch of parse_ingredient_line.
ToTaste(line) ==
    LET name == Unbulleted(ReSubOnce(TO_TASTE, line))
    IN  Some(ParsedIngredient(None, Some(to_taste), name, line))

\* The fallback: the whole line is the name.
Fallback(line) ==
    LET name == Unbulleted(line)
    IN  IF name # <<>> THEN Some(ParsedIngredient(None, None, name, line))
        ELSE None

\* parse_ingredient_line: None or Some(ParsedIngredient)
parse_ingredient_line(raw) ==
    LET line == Strip(raw)
    IN  IF line = <<>> THEN None
        ELSE IF Head(line) = "#" THEN None
        ELSE IF Contains(Lower(line), to_taste) THEN ToTaste(line)
        ELSE
            LET match == ReMatch(QUANTITY_PATTERN, 8, line)
            IN  IF IsNone(match) THEN Fallback(line)
                ELSE LET parsed == parse_quantity(line, Val(match))
                     IN  IF parsed.name # <<>>
                         THEN Some(ParsedIngredient(parsed.quantity, parsed.unit,
                                                    parsed.name, line))
                         ELSE Fallback(line)

\* The lines of the section that parse, in order.
RECURSIVE ParsedLines(_)
ParsedLines(lines) ==
    IF lines = <<>> THEN <<>>
    ELSE parse_ingredient_line(Head(lines)) \o ParsedLines(Tail(lines))

UpperChar(c) ==
    IF CharCode(c) >= CharCode("a") /\ CharCode(c) <= CharCode("z")
    THEN Alphabet[CharCode(c) - (CharCode("a") - CharCode("A"))]
    ELSE c

IsLetter(c) == IsUpper(c) \/ UpperChar(c) # c

\* str.title(): a letter is upper case after a non-letter, lower case after
\* a letter.
Title(s) ==
    [i \in 1..Len(s) |->
        IF i > 1 /\ IsLetter(s[i - 1]) THEN LowerChar(s[i]) ELSE UpperChar(s[i])]

\* s.replace(old, new) for one-character old and new
Replace(s, old, new) == [i \in 1..Len(s) |-> IF s[i] = old THEN new ELSE s[i]]

\* s.rsplit(".", 1)[0]
BeforeLastDot(s) ==
    IF \E i \in 1..Len(s) : s[i] = "."
    THEN SubSeq(s, 1, (CHOOSE i \in 1..Len(s) :
                          s[i] = "." /\ \A j \in (i + 1)..Len(s) : s[j] # ".") - 1)
    ELSE s

\* The title when the content has no "# " heading.
NameOfFile(filename) ==
    Title(Replace(Replace(BeforeLastDot(filename), "-", " "), "_", " "))

ParsedRecipe(name, servings, ings, raw_content, error) ==
    [name |-> name, servings |-> servings, ingredients |-> ings,
     raw_content |-> raw_content, error |-> error]

\* The two error messages (kept as they are written: nothing reads their
\* characters).
MISSING_SECTION == Some("Missing '## Ingredients' section")
NO_INGREDIENTS == Some("No ingredients found in '## Ingredients' section")

\* parse_recipe
parse_recipe(filename, content) ==
    LET title_match == ReSearch(TITLE_PATTERN, 1, content)
        name == IF ~IsNone(title_match)
                THEN Strip(Val(GroupOf(content, Val(title_match), 1)))
                ELSE NameOfFile(filename)
        servings_match == ReSearch(SERVINGS_PATTERN, 1, content)
        servings == IF ~IsNone(servings_match)
                    THEN StrToInt(Val(GroupOf(content, Val(servings_match), 1)))
                    ELSE 4
        ingredients_match == ReSearch(INGREDIENTS_SECTION, 1, content)
    IN  IF IsNone(ingredients_match)
        THEN ParsedRecipe(name, servings, <<>>, content, MISSING_SECTION)
        ELSE
            LET ingredients_text == Val(GroupOf(content, Val(ingredients_match), 1))
                parsed == ParsedLines(SplitOn(ingredients_text, "\n", <<>>, <<>>))
            IN  IF parsed = <<>>
                THEN ParsedRecipe(name, servings, <<>>, content, NO_INGREDIENTS)
                ELSE ParsedRecipe(name, servings, parsed, content, None)

----------------------------------------------------------------------------
(* Inputs *)

\* The longest ingredient list combine_ingredients is called with.
MaxLines == 3

oz == <<"o", "z">>
lb == <<"l", "b">>
cup == <<"c", "u", "p">>

\* The declared unit table.
DeclaredUnits == WEIGHT_UNITS \cup VOLUME_UNITS \cup NON_CONVERTIBLE

\* Units no table holds, and spellings lower().strip() changes.
OtherUnits ==
    { <<"s", "t", "i", "c", "k">>, <<"S", "l", "i", "c", "e">>,
      <<"O", "z">>, <<"K", "G">>, <<" ", "m", "l">>, <<"C", "a", "n">> }

Units == DeclaredUnits \cup OtherUnits

\* Quantities, in thousandths: 0, 0.5, 1, 2, 8, 35.27, 35.28, 40, 999, 1000.
Quantities ==
    { 0, 500, 1000, 2000, 8000, 35270, 35280, 40000, 999000, 1000000 }

Optional(S) == {None} \cup {Some(v) : v \in S}

milk == <<"m", "i", "l", "k">>
butter == <<"b", "u", "t", "t", "e", "r">>
Butter == <<"B", "u", "t", "t", "e", "r">>
onion == <<"o", "n", "i", "o", "n">>
Onions == <<"O", "n", "i", "o", "n", "s">>
salt == <<"s", "a", "l", "t">>

Line(recipe_id, q, u, name) ==
    [recipe_id |-> recipe_id, quantity |-> q, unit |-> u, name |-> name]

\* The ingredient rows of two recipes, 1 and 2.
Lines ==
    { Line(1, Some(2000), Some(cup), milk),
      Line(2, Some(1000), Some(cup), milk),
      Line(1, Some(8000), Some(oz), Butter),
      Line(2, Some(500), Some(lb), butter),
      Line(1, Some(20000), Some(oz), butter),
      Line(1, None, None, Onions),
      Line(2, Some(0), None, onion) }

IngredientLists == UNION { [1..n -> Lines] : n \in 0..MaxLines }

\* recipe_multipliers: recipe 2 may be missing.
MultiplierMaps ==
    { (1 :> Ratio(2, 1)) @@ (2 :> Ratio(1, 1)),
      (1 :> Ratio(1, 1)) }

\* categories.txt, two versions of it:
\*   # zones                      dairy: milk
\*   produce: onion, pepper       staples:
\*   dairy: Milk , butter         store: salt,butter, onion
ZoneFileA ==
    << <<"#", " ", "z", "o", "n", "e", "s">>,
       <<"p", "r", "o", "d", "u", "c", "e", ":", " ">> \o onion
           \o <<",", " ", "p", "e", "p", "p", "e", "r">>,
       <<"d", "a", "i", "r", "y", ":", " ", "M", "i", "l", "k", " ", ",", " ">>
           \o butter >>

ZoneFileB ==
    << <<"d", "a", "i", "r", "y", ":", " ">> \o milk,
       <<"s", "t", "a", "p", "l", "e", "s", ":">>,
       <<"s", "t", "o", "r", "e", ":", " ">> \o salt \o <<",">> \o butter
           \o <<",", " ">> \o onion >>

\* None: the file does not exist.
ZoneFiles == { None, Some(ZoneFileA), Some(ZoneFileB) }

\* Two more versions: one names the zone "produce" twice, one has a zone
\* of the name "unzoned".
\*   produce: onion               unzoned: salt
\*   dairy: milk                  dairy: milk
\*   produce: pepper
ZoneFileC ==
    << <<"p", "r", "o", "d", "u", "c", "e", ":", " ", "o", "n", "i", "o",
         "n">>,
       <<"d", "a", "i", "r", "y", ":", " ", "m", "i", "l", "k">>,
       <<"p", "r", "o", "d", "u", "c", "e", ":", " ", "p", "e", "p", "p",
         "e", "r">> >>

ZoneFileD ==
    << <<"u", "n", "z", "o", "n", "e", "d", ":", " ", "s", "a", "l", "t">>,
       <<"d", "a", "i", "r", "y", ":", " ", "m", "i", "l", "k">> >>

RuleFiles == ZoneFiles \cup { Some(ZoneFileC), Some(ZoneFileD) }

red_bell_pepper ==
    <<"r", "e", "d", " ", "b", "e", "l", "l", " ", "p", "e", "p", "p", "e",
      "r">>

soy_sauce == <<"s", "o", "y", " ", "s", "a", "u", "c", "e">>

\* The threads that call into categories.py: a request handler and the
\* watcher's timer.
Threads == {"request", "timer"}

\* Names that get_category is asked about.
ItemNames ==
    { red_bell_pepper,
      soy_sauce,
      <<"B", "u", "t", "t", "e", "r", "m", "i", "l", "k">>,
      <<"O", "n", "i", "o", "n", " ", "b", "u", "t", "t", "e", "r">>,
      salt, milk }

\* Zones that get_category_order is asked about.
ZoneNames ==
    { <<"p", "r", "o", "d", "u", "c", "e">>,
      <<"d", "a", "i", "r", "y">>,
      <<"s", "t", "o", "r", "e">>,
      <<"D", "a", "i", "r", "y">>,
      unzoned }

\* pantry.txt, two versions of it:
\*   # staples                    MILK
\*    Salt
\*
\*   olive oil
PantryFileA ==
    << <<"#", " ", "s", "t", "a", "p", "l", "e", "s">>,
       <<" ", "S", "a", "l", "t", " ">>,
       <<>>,
       <<"o", "l", "i", "v", "e", " ", "o", "i", "l">> >>

PantryFileB == << <<"M", "I", "L", "K">> >>

PantryFiles == { None, Some(PantryFileA), Some(PantryFileB) }

\* The longest list filter_pantry_items is called with.
MaxItems == 3

Item(name, q) == [name |-> name, quantity |-> q]

Salt == <<"S", "a", "l", "t">>
Sea_salt == <<"S", "e", "a", " ", "s", "a", "l", "t">>
Olive_Oil == <<"O", "l", "i", "v", "e", " ", "O", "i", "l">>

\* Combined entries: two of one name, names of either case.
Items ==
    { Item(Salt, Some(1000)), Item(Salt, None), Item(Sea_salt, None),
      Item(Olive_Oil, Some(2000)), Item(milk, Some(710000)),
      Item(Onions, None) }

ItemLists == UNION { [1..n -> Items] : n \in 0..MaxItems }

\* Ingredient lines: a bullet or none, a quantity in one of the four forms
\* or none, a unit or none, a name or none.
LineBullets == { <<>>,
      <<"-", " ">>,
      <<"*">> }

LineQuantities ==
    { <<>>,
      <<"1", " ", "1", "/", "2">>,
      <<"1", "/", "2">>,
      <<"2", "-", "3">>,
      <<"2", ".", "5">>,
      <<"1", "2">>,
      <<"1", " ", "2", "/", "3">>,
      <<"3", "/", "8">> }

LineUnits == { <<>>,
      <<" ", "c", "u", "p", "s">>,
      <<" ", "l", "b">> }

LineNames ==
    { <<>>,
      <<" ", "f", "l", "o", "u", "r">>,
      <<" ", "g", "a", "r", "l", "i", "c", ",", " ">>,
      <<" ", "t", "o", " ", "t", "a", "s", "t", "e">> }

IngredientLines ==
    { b \o q \o u \o n :
          b \in LineBullets, q \in LineQuantities, u \in LineUnits,
          n \in LineNames }

\* Recipe documents: a title or none, a servings line or none, the heading
\* of the section or none (ended by a newline or by the end of the file),
\* the lines under it, and a section after it or none.
DocTitles == { <<>>,
      <<"#", " ", "S", "o", "u", "p", "\n">> }

DocServings ==
    { <<>>,
      <<"S", "e", "r", "v", "i", "n", "g", "s", ":", " ", "2", "\n">>,
      <<"s", "e", "r", "v", "i", "n", "g", "s", ":", " ", "0", "\n">>,
      <<"S", "e", "r", "v", "i", "n", "g", "s", ":", " ", "m", "a", "n",
        "y", "\n">> }

DocHeadings ==
    { <<>>,
      <<"#", "#", " ", "I", "n", "g", "r", "e", "d", "i", "e", "n", "t",
        "s", "\n">>,
      <<"#", "#", " ", "I", "n", "g", "r", "e", "d", "i", "e", "n", "t",
        "s">>,
      <<"#", "#", " ", "i", "n", "g", "r", "e", "d", "i", "e", "n", "t",
        "s", " ", " ", "\n">> }

DocBodies ==
    { <<>>,
      <<"-", " ", "2", " ", "c", "u", "p", "s", " ", "f", "l", "o", "u",
        "r", "\n">>,
      <<"#", " ", "n", "o", "n", "e", "\n">>,
      <<"s", "a", "l", "t", " ", "t", "o", " ", "t", "a", "s", "t", "e",
        "\n", "1", "/", "2", " ", "l", "b", " ", "b", "u", "t", "t", "e",
        "r">> }

DocTails ==
    { <<>>,
      <<"#", "#", " ", "S", "t", "e", "p", "s", "\n", "-", " ", "1", " ",
        "c", "u", "p", " ", "w", "a", "t", "e", "r">> }

Documents ==
    { a \o b \o c \o d \o e :
          a \in DocTitles, b \in DocServings, c \in DocHeadings,
          d \in DocBodies, e \in DocTails }

Filenames ==
    { <<"t", "o", "m", "a", "t", "o", "-", "s", "o", "u", "p", ".", "m",
        "d">>,
      <<"n", "o", "e", "x", "t">> }

\* The recipes table, id to servings: recipe 2 has two servings, or none
\* ("Servings: 0"), or does not exist.
RecipeTables ==
    { (1 :> 4) @@ (2 :> 2),
      (1 :> 4) @@ (2 :> 0),
      (1 :> 4) }

pinch == <<"p", "i", "n", "c", "h">>
Apples == <<"A", "p", "p", "l", "e", "s">>

\* The ingredients table: no row, or the rows of recipes 1 and 2.
RowLists ==
    { <<>>,
      << Line(1, Some(2000), Some(cup), milk),
         Line(2, Some(1000), Some(cup), milk),
         Line(1, None, None, Onions) >>,
      << Line(1, Some(8000), Some(oz), Butter),
         Line(2, Some(500), Some(lb), butter),
         Line(2, Some(3000), Some(pinch), Salt) >> }

\* A recipe that does not exist has no rows.
Databases ==
    { [recipes |-> recipes,
       rows |-> get_ingredients_for_recipes(rows, DOMAIN recipes)] :
          recipes \in RecipeTables, rows \in RowLists }

Selection(recipe_id, target_servings) ==
    [recipe_id |-> recipe_id, target_servings |-> target_servings]

\* Recipe 3 does not exist; recipe 2 may be selected twice.
SelectionLists ==
    { <<>>,
      << Selection(1, 2) >>,
      << Selection(2, 6) >>,
      << Selection(1, 6), Selection(2, 2) >>,
      << Selection(2, 2), Selection(2, 6) >>,
      << Selection(3, 2) >>,
      << Selection(1, 2), Selection(3, 6) >> }

AdditionalLists ==
    { <<>>, << Salt >>, << milk, Apples >>, << Onions, Salt >> }

Requests ==
    { [selections |-> selections, additional_items |-> additional] :
          selections \in SelectionLists, additional \in AdditionalLists }

\* The most timers a run starts.
MaxTimers == 3

FileEvent(is_directory, name) == [is_directory |-> is_directory, name |-> name]

\* The events of the recipes folder: a recipe, a template, a hidden file,
\* an editor's backup, a text file, and a folder.
FileEvents ==
    { FileEvent(FALSE, <<"s", "o", "u", "p", ".", "m", "d">>),
      FileEvent(FALSE, <<"0", "0", "-", "n", "e", "w", ".", "m", "d">>),
      FileEvent(FALSE, <<".", "s", "o", "u", "p", ".", "m", "d">>),
      FileEvent(FALSE, <<"s", "o", "u", "p", ".", "m", "d", "~">>),
      FileEvent(FALSE, <<"n", "o", "t", "e", "s", ".", "t", "x", "t">>),
      FileEvent(TRUE, <<"o", "l", "d", ".", "m", "d">>) }

\* The rows combine_ingredients is called with while another thread loads.
SnapshotLists ==
    { << Line(1, None, None, Onions), Line(1, Some(2000), Some(cup), milk) >>,
      << Line(1, Some(8000), Some(oz), Butter),
         Line(1, Some(1000), Some(cup), milk) >> }

----------------------------------------------------------------------------
(* The state machine *)

\* The program is single-threaded: one call runs at a time. A call's
\* arguments and return value are kept until the caller takes the result.
NoCall ==
    /\ quantity' = None
    /\ unit' = None
    /\ converted' = None
    /\ ingredients' = <<>>
    /\ recipe_multipliers' = <<>>
    /\ combined' = <<>>
    /\ call' = None
    /\ returned' = None

Init ==
    /\ zoneFile \in ZoneFiles
    /\ zoneCache = None
    /\ op = "idle"
    /\ quantity = None
    /\ unit = None
    /\ converted = None
    /\ ingredients = <<>>
    /\ recipe_multipliers = <<>>
    /\ combined = <<>>
    /\ pantryFile = None
    /\ pantryCache = None
    /\ call = None
    /\ returned = None
    /\ threads = <<>>
    /\ watcher = NewWatcher

\* A call of convert_to_metric(q, u).
ConvertToMetric ==
    /\ op = "idle"
    /\ \E q \in Optional(Quantities), u \in Optional(Units) :
        /\ op' = "convert_to_metric"
        /\ quantity' = q
        /\ unit' = u
        /\ converted' = Some(convert_to_metric(q, u))
        /\ ingredients' = <<>>
        /\ recipe_multipliers' = <<>>
        /\ combined' = <<>>
        /\ call' = None
        /\ returned' = None
        /\ UNCHANGED <<watcher, zoneFile, zoneCache, pantryFile, pantryCache, threads>>

\* A call of combine_ingredients(ings, multipliers). get_category and the
\* sort key call _load_zones(), which fills the cache; with no ingredient
\* there is no group and neither is called.
CombineIngredients ==
    /\ op = "idle"
    /\ \E ings \in IngredientLists, multipliers \in MultiplierMaps :
        LET zones == _load_zones(zoneCache, zoneFile)
        IN  /\ op' = "combine_ingredients"
            /\ ingredients' = ings
            /\ recipe_multipliers' = multipliers
            /\ combined' = combine_ingredients(ings, multipliers, zones)
            /\ zoneCache' = IF ings = <<>> THEN zoneCache ELSE Some(zones)
            /\ quantity' = None
            /\ unit' = None
            /\ converted' = None
            /\ call' = None
            /\ returned' = None
            /\ UNCHANGED <<watcher, zoneFile, pantryFile, pantryCache, threads>>

\* The caller takes the result of the call.
Return ==
    /\ op # "idle"
    /\ op' = "idle"
    /\ NoCall
    /\ UNCHANGED <<watcher, zoneFile, zoneCache, pantryFile, pantryCache, threads>>

\* reload_categories(): _load_zones.cache_clear()
ReloadCategories ==
    /\ op = "idle"
    /\ zoneCache' = None
    /\ UNCHANGED <<watcher, zoneFile, op, quantity, unit, converted,
                   ingredients, recipe_multipliers, combined,
                   pantryFile, pantryCache, call, returned, threads>>

\* The user edits, creates or deletes categories.txt.
EditZoneFile ==
    /\ op = "idle"
    /\ \E file \in RuleFiles \ {zoneFile} :
        /\ zoneFile' = file
        /\ UNCHANGED <<watcher, zoneCache, op, quantity, unit, converted,
                       ingredients, recipe_multipliers, combined,
                       pantryFile, pantryCache, call, returned, threads>>

\* A call of get_category(name).
GetCategory ==
    /\ op = "idle"
    /\ \E name \in ItemNames :
        LET zones == _load_zones(zoneCache, zoneFile)
        IN  /\ op' = "get_category"
            /\ call' = Some(name)
            /\ returned' = Some(get_category(zones, name))
            /\ zoneCache' = Some(zones)
            /\ UNCHANGED <<watcher, zoneFile, quantity, unit, converted, ingredients,
                           recipe_multipliers, combined,
                           pantryFile, pantryCache, threads>>

\* A call of get_category_order(zone).
GetCategoryOrder ==
    /\ op = "idle"
    /\ \E zone \in ZoneNames :
        LET zones == _load_zones(zoneCache, zoneFile)
        IN  /\ op' = "get_category_order"
            /\ call' = Some(zone)
            /\ returned' = Some(get_category_order(zones, zone))
            /\ zoneCache' = Some(zones)
            /\ UNCHANGED <<watcher, zoneFile, quantity, unit, converted, ingredients,
                           recipe_multipliers, combined,
                           pantryFile, pantryCache, threads>>

\* A call of filter_pantry_items(items). is_pantry_item calls
\* _load_pantry_items(), which fills the cache; with no item it is not
\* called.
FilterPantryItems ==
    /\ op = "idle"
    /\ \E items \in ItemLists :
        LET patterns == _load_pantry_items(pantryCache, pantryFile)
        IN  /\ op' = "filter_pantry_items"
            /\ call' = Some(items)
            /\ returned' = Some(filter_pantry_items(patterns, items))
            /\ pantryCache' = IF items = <<>> THEN pantryCache
                               ELSE Some(patterns)
            /\ UNCHANGED <<watcher, zoneFile, zoneCache, quantity, unit, converted,
                           ingredients, recipe_multipliers, combined,
                           pantryFile, threads>>

\* A call of is_pantry_item(name).
IsPantryItem ==
    /\ op = "idle"
    /\ \E name \in {it.name : it \in Items} :
        LET patterns == _load_pantry_items(pantryCache, pantryFile)
        IN  /\ op' = "is_pantry_item"
            /\ call' = Some(name)
            /\ returned' = Some(is_pantry_item(patterns, name))
            /\ pantryCache' = Some(patterns)
            /\ UNCHANGED <<watcher, zoneFile, zoneCache, quantity, unit, converted,
                           ingredients, recipe_multipliers, combined,
                           pantryFile, threads>>

\* reload_pantry(): _load_pantry_items.cache_clear()
ReloadPantry ==
    /\ op = "idle"
    /\ pantryCache' = None
    /\ UNCHANGED <<watcher, zoneFile, zoneCache, op, quantity, unit, converted,
                   ingredients, recipe_multipliers, combined,
                   pantryFile, call, returned, threads>>

\* The user edits, creates or deletes pantry.txt.
EditPantryFile ==
    /\ op = "idle"
    /\ \E file \in PantryFiles \ {pantryFile} :
        /\ pantryFile' = file
        /\ UNCHANGED <<watcher, zoneFile, zoneCache, op, quantity, unit, converted,
                       ingredients, recipe_multipliers, combined,
                       pantryCache, call, returned, threads>>

\* The locals of a thread that is not in _load_zones().
IdleThread == [pc |-> "idle", lines |-> <<>>, zones |-> <<>>, result |-> None]

\* Thread t calls _load_zones(): a hit returns the cached tuple, a miss
\* runs the body.
LoadCall(t) ==
    /\ threads[t].pc = "idle"
    /\ threads' = [threads EXCEPT ![t] =
                       IF IsNone(zoneCache)
                       THEN [IdleThread EXCEPT !.pc = "open"]
                       ELSE [IdleThread EXCEPT !.pc = "returned",
                                               !.result = zoneCache]]
    /\ UNCHANGED <<watcher, zoneFile, zoneCache, op, quantity, unit, converted,
                   ingredients, recipe_multipliers, combined,
                   pantryFile, pantryCache, call, returned>>

\* zones = []; open(CATEGORIES_PATH): the file as it is now, or
\* FileNotFoundError. The file is small: one read fills the buffer.
LoadOpen(t) ==
    /\ threads[t].pc = "open"
    /\ threads' = [threads EXCEPT ![t] =
                       IF IsNone(zoneFile)
                       THEN [@ EXCEPT !.pc = "store"]
                       ELSE [@ EXCEPT !.pc = "read", !.lines = Val(zoneFile)]]
    /\ UNCHANGED <<watcher, zoneFile, zoneCache, op, quantity, unit, converted,
                   ingredients, recipe_multipliers, combined,
                   pantryFile, pantryCache, call, returned>>

\* One turn of "for line in f".
LoadLine(t) ==
    /\ threads[t].pc = "read"
    /\ threads[t].lines # <<>>
    /\ LET zones == threads[t].zones \o ZoneOfLine(Head(threads[t].lines))
       IN  /\ threads' = [threads EXCEPT ![t].zones = zones,
                                         ![t].lines = Tail(@)]
           /\ zoneCache' = CacheWhileLoading(zoneCache, zones)
    /\ UNCHANGED <<watcher, zoneFile, op, quantity, unit, converted,
                   ingredients, recipe_multipliers, combined,
                   pantryFile, pantryCache, call, returned>>

\* The end of the file.
LoadEnd(t) ==
    /\ threads[t].pc = "read"
    /\ threads[t].lines = <<>>
    /\ threads' = [threads EXCEPT ![t].pc = "store"]
    /\ UNCHANGED <<watcher, zoneFile, zoneCache, op, quantity, unit, converted,
                   ingredients, recipe_multipliers, combined,
                   pantryFile, pantryCache, call, returned>>

\* return tuple(zones), through lru_cache.
LoadStore(t) ==
    /\ threads[t].pc = "store"
    /\ threads' = [threads EXCEPT ![t].pc = "returned",
                                  ![t].result = Some(threads[t].zones)]
    /\ zoneCache' = CacheAfterLoading(zoneCache, threads[t].zones)
    /\ UNCHANGED <<watcher, zoneFile, op, quantity, unit, converted,
                   ingredients, recipe_multipliers, combined,
                   pantryFile, pantryCache, call, returned>>

\* The caller (get_category, get_category_order) is done with the tuple.
LoadDone(t) ==
    /\ threads[t].pc = "returned"
    /\ threads' = [threads EXCEPT ![t] = IdleThread]
    /\ UNCHANGED <<watcher, zoneFile, zoneCache, op, quantity, unit, converted,
                   ingredients, recipe_multipliers, combined,
                   pantryFile, pantryCache, call, returned>>

\* A call of parse_ingredient_line(line).
ParseIngredientLine ==
    /\ op = "idle"
    /\ \E line \in IngredientLines :
        /\ op' = "parse_ingredient_line"
        /\ call' = Some(line)
        /\ returned' = Some(parse_ingredient_line(line))
        /\ UNCHANGED <<watcher, zoneFile, zoneCache, quantity, unit, converted,
                       ingredients, recipe_multipliers, combined,
                       pantryFile, pantryCache, threads>>

\* A call of parse_recipe(filename, content).
ParseRecipe ==
    /\ op = "idle"
    /\ \E filename \in Filenames, content \in Documents :
        /\ op' = "parse_recipe"
        /\ call' = Some([filename |-> filename, content |-> content])
        /\ returned' = Some(parse_recipe(filename, content))
        /\ UNCHANGED <<watcher, zoneFile, zoneCache, quantity, unit, converted,
                       ingredients, recipe_multipliers, combined,
                       pantryFile, pantryCache, threads>>

\* A request POST /shopping-list. The handler is a coroutine that never
\* awaits: it runs from its first line to its last with no other handler
\* in between. _load_zones() is called at the first get_category, which
\* there is if a row or an additional item is there; _load_pantry_items()
\* at the first combined entry.
GenerateShoppingList ==
    /\ op = "idle"
    /\ \E request \in Requests, db \in Databases :
        LET zones == _load_zones(zoneCache, zoneFile)
            patterns == _load_pantry_items(pantryCache, pantryFile)
            response == generate_shopping_list(request, db, zones, patterns)
        IN  /\ op' = "generate_shopping_list"
            /\ call' = Some([request |-> request, db |-> db])
            /\ ingredients' = response.ingredients
            /\ recipe_multipliers' = response.multipliers
            /\ combined' = response.combined
            /\ returned' = Some([shopping_items |-> response.shopping_items,
                                 pantry_items |-> response.pantry_items])
            /\ zoneCache' = IF response.ingredients = <<>>
                               /\ request.additional_items = <<>>
                            THEN zoneCache ELSE Some(zones)
            /\ pantryCache' = IF response.combined = <<>> THEN pantryCache
                              ELSE Some(patterns)
            /\ UNCHANGED <<watcher, zoneFile, quantity, unit, converted, pantryFile,
                           threads>>

\* RecipeWatcher.start(), on the main thread.
StartWatcher ==
    /\ watcher.stop = "idle"
    /\ ~watcher._started
    /\ watcher' = [watcher EXCEPT !._started = TRUE, !.observer = "running"]
    /\ UNCHANGED <<zoneFile, zoneCache, op, quantity, unit, converted,
                   ingredients, recipe_multipliers, combined,
                   pantryFile, pantryCache, call, returned, threads>>

\* The observer's thread hands one event to on_any_event. It does so until
\* observer.stop() is called, and once more if an event was on its way
\* then.
OnAnyEvent ==
    /\ watcher.observer \in {"running", "stopping"}
    /\ Len(watcher.timers) < MaxTimers
    /\ \E event \in FileEvents :
        /\ watcher' = [on_any_event(watcher, event) EXCEPT
                           !.observer = IF @ = "stopping" THEN "stopped"
                                        ELSE @]
        /\ call' = Some(event)
        /\ returned' = None
        /\ UNCHANGED <<zoneFile, zoneCache, op, quantity, unit, converted,
                       ingredients, recipe_multipliers, combined,
                       pantryFile, pantryCache, threads>>

\* Timer.run() of timer t, after finished.wait(interval): the function
\* _execute_callback is called unless finished is set.
TimerExpire(t) ==
    /\ watcher.timers[t].state = "waiting"
    /\ watcher' =
           [watcher EXCEPT !.timers[t] =
               IF @.finished THEN [@ EXCEPT !.state = "returned"]
               ELSE [@ EXCEPT !.state = "running", !.called = TRUE,
                              !.late = watcher.stop = "returned"]]
    /\ UNCHANGED <<zoneFile, zoneCache, op, quantity, unit, converted,
                   ingredients, recipe_multipliers, combined,
                   pantryFile, pantryCache, call, returned, threads>>

\* on_change_callback returns (or raises, which is logged), and the
\* timer's thread ends.
TimerReturn(t) ==
    /\ watcher.timers[t].state = "running"
    /\ watcher' = [watcher EXCEPT !.timers[t].state = "returned",
                                  !.timers[t].finished = TRUE]
    /\ UNCHANGED <<zoneFile, zoneCache, op, quantity, unit, converted,
                   ingredients, recipe_multipliers, combined,
                   pantryFile, pantryCache, call, returned, threads>>

\* RecipeWatcher.stop() is called on the main thread: it returns at once
\* if the watcher was not started.
StopCall ==
    /\ watcher.stop = "idle"
    /\ watcher' = [watcher EXCEPT !.stop = IF watcher._started THEN "cancel"
                                          ELSE "returned"]
    /\ UNCHANGED <<zoneFile, zoneCache, op, quantity, unit, converted,
                   ingredients, recipe_multipliers, combined,
                   pantryFile, pantryCache, call, returned, threads>>

\* stop(): under the lock, the timer of the handler is cancelled and
\* forgotten.
StopCancel ==
    /\ watcher.stop = "cancel"
    /\ watcher' =
           [watcher EXCEPT
               !.timers = IF watcher._debounce_timer # 0
                          THEN [@ EXCEPT ![watcher._debounce_timer] = cancel(@)]
                          ELSE @,
               !._debounce_timer = 0,
               !.stop = "observer_stop"]
    /\ UNCHANGED <<zoneFile, zoneCache, op, quantity, unit, converted,
                   ingredients, recipe_multipliers, combined,
                   pantryFile, pantryCache, call, returned, threads>>

\* stop(): observer.stop() asks the observer's thread to end.
StopObserver ==
    /\ watcher.stop = "observer_stop"
    /\ watcher' = [watcher EXCEPT !.observer = "stopping", !.stop = "join"]
    /\ UNCHANGED <<zoneFile, zoneCache, op, quantity, unit, converted,
                   ingredients, recipe_multipliers, combined,
                   pantryFile, pantryCache, call, returned, threads>>

\* The observer's thread ends.
ObserverExit ==
    /\ watcher.observer = "stopping"
    /\ watcher' = [watcher EXCEPT !.observer = "stopped"]
    /\ UNCHANGED <<zoneFile, zoneCache, op, quantity, unit, converted,
                   ingredients, recipe_multipliers, combined,
                   pantryFile, pantryCache, call, returned, threads>>

\* stop(): observer.join(timeout=2) returns, because the thread has ended
\* or because 2 seconds have passed; _started is cleared and stop()
\* returns.
StopJoin ==
    /\ watcher.stop = "join"
    /\ watcher' = [watcher EXCEPT !._started = FALSE, !.stop = "returned"]
    /\ UNCHANGED <<zoneFile, zoneCache, op, quantity, unit, converted,
                   ingredients, recipe_multipliers, combined,
                   pantryFile, pantryCache, call, returned, threads>>

\* categories.txt is edited, created or deleted, at any time.
UserEditsZoneFile ==
    /\ \E file \in RuleFiles \ {zoneFile} : zoneFile' = file
    /\ UNCHANGED <<watcher, zoneCache, op, quantity, unit, converted,
                   ingredients, recipe_multipliers, combined,
                   pantryFile, pantryCache, call, returned, threads>>

\* The request thread calls combine_ingredients(ings, multipliers): the
\* first loop groups the lines.
CombineBegin ==
    /\ op = "idle"
    /\ threads["request"].pc = "idle"
    /\ \E ings \in SnapshotLists :
        /\ op' = "combine_ingredients"
        /\ ingredients' = ings
        /\ recipe_multipliers' = (1 :> Ratio(1, 1))
        /\ combined' = <<>>
        /\ call' = Some(NewFrame)
        /\ quantity' = None
        /\ unit' = None
        /\ converted' = None
        /\ returned' = None
        /\ UNCHANGED <<watcher, zoneFile, zoneCache, pantryFile, pantryCache,
                       threads>>

\* get_category and get_category_order call _load_zones().
CombineLoadCall ==
    /\ op = "combine_ingredients"
    /\ ~IsNone(call)
    /\ Val(call).pc # "sorted"
    /\ LoadCall("request")

\* category = get_category(display_name), with the tuple _load_zones()
\* returned; the entry is appended. After the last group, sort_by_category
\* is called.
CombineCategory ==
    /\ op = "combine_ingredients"
    /\ Val(call).pc = "category"
    /\ threads["request"].pc = "returned"
    /\ LET zones == Val(threads["request"].result)
           grouped == Grouped(ingredients, recipe_multipliers)
           entry == CombinedEntry(zones, grouped[Len(combined) + 1])
       IN  /\ combined' = Append(combined, entry)
           /\ call' = IF Len(combined) + 1 = Len(grouped)
                      THEN Some([Val(call) EXCEPT !.pc = "key_category"])
                      ELSE call
    /\ threads' = [threads EXCEPT !["request"] = IdleThread]
    /\ UNCHANGED <<watcher, zoneFile, zoneCache, op, quantity, unit,
                   converted, ingredients, recipe_multipliers,
                   pantryFile, pantryCache, returned>>

\* sort_key: item.get("category", get_category(item.get("name", ""))); the
\* default is evaluated and not used.
CombineKeyCategory ==
    /\ op = "combine_ingredients"
    /\ Val(call).pc = "key_category"
    /\ threads["request"].pc = "returned"
    /\ call' = Some([Val(call) EXCEPT !.pc = "key_order"])
    /\ threads' = [threads EXCEPT !["request"] = IdleThread]
    /\ UNCHANGED <<watcher, zoneFile, zoneCache, op, quantity, unit,
                   converted, ingredients, recipe_multipliers, combined,
                   pantryFile, pantryCache, returned>>

\* sort_key: (get_category_order(zone), name), with the tuple
\* _load_zones() returned. After the last key the list is sorted and
\* returned.
CombineKeyOrder ==
    /\ op = "combine_ingredients"
    /\ Val(call).pc = "key_order"
    /\ threads["request"].pc = "returned"
    /\ LET zones == Val(threads["request"].result)
           keys == Append(Val(call).keys,
                          sort_key(zones, combined[Len(Val(call).keys) + 1]))
       IN  IF Len(keys) = Len(combined)
           THEN /\ combined' = SortedByKey(combined, keys)
                /\ call' = Some([pc |-> "sorted", keys |-> keys])
           ELSE /\ combined' = combined
                /\ call' = Some([pc |-> "key_category", keys |-> keys])
    /\ threads' = [threads EXCEPT !["request"] = IdleThread]
    /\ UNCHANGED <<watcher, zoneFile, zoneCache, op, quantity, unit,
                   converted, ingredients, recipe_multipliers,
                   pantryFile, pantryCache, returned>>

\* The caller takes the list.
CombineReturn ==
    /\ op = "combine_ingredients"
    /\ Val(call).pc = "sorted"
    /\ op' = "idle"
    /\ NoCall
    /\ UNCHANGED <<watcher, zoneFile, zoneCache, pantryFile, pantryCache,
                   threads>>

Next ==
    \/ ConvertToMetric
    \/ CombineIngredients
    \/ Return
    \/ ReloadCategories
    \/ EditZoneFile

Spec == Init /\ [][Next]_vars

NextConvert ==
    \/ ConvertToMetric
    \/ Return

\* The converter alone.
ConvertSpec == Init /\ [][NextConvert]_vars

NextCombine ==
    \/ CombineIngredients
    \/ Return

\* The combiner, under each of the rule sets: the file is as Init finds it.
CombineSpec == Init /\ [][NextCombine]_vars

\* Any version of categories.txt may be the one the process starts with.
ClassifyInit ==
    /\ zoneFile \in RuleFiles
    /\ zoneCache = None
    /\ op = "idle"
    /\ quantity = None
    /\ unit = None
    /\ converted = None
    /\ ingredients = <<>>
    /\ recipe_multipliers = <<>>
    /\ combined = <<>>
    /\ pantryFile = None
    /\ pantryCache = None
    /\ call = None
    /\ returned = None
    /\ threads = <<>>
    /\ watcher = NewWatcher

NextClassify ==
    \/ GetCategory
    \/ GetCategoryOrder
    \/ Return
    \/ ReloadCategories
    \/ EditZoneFile

\* The zone classifier, the file being edited and reloaded between calls.
ClassifySpec == ClassifyInit /\ [][NextClassify]_vars

\* Any version of pantry.txt may be the one the process starts with.
PantryInit ==
    /\ zoneFile = None
    /\ zoneCache = None
    /\ op = "idle"
    /\ quantity = None
    /\ unit = None
    /\ converted = None
    /\ ingredients = <<>>
    /\ recipe_multipliers = <<>>
    /\ combined = <<>>
    /\ pantryFile \in PantryFiles
    /\ pantryCache = None
    /\ call = None
    /\ returned = None
    /\ threads = <<>>
    /\ watcher = NewWatcher

NextPantry ==
    \/ FilterPantryItems
    \/ Return

\* The pantry filter, under each version of the file.
PantrySpec == PantryInit /\ [][NextPantry]_vars

NextParseLine ==
    \/ ParseIngredientLine
    \/ Return

\* The line parser alone.
ParseLineSpec == Init /\ [][NextParseLine]_vars

NextParseRecipe ==
    \/ ParseRecipe
    \/ Return

\* The document parser alone.
ParseRecipeSpec == Init /\ [][NextParseRecipe]_vars

\* Any version of the two files may be the one the process starts with.
ShoppingInit ==
    /\ zoneFile \in ZoneFiles
    /\ zoneCache = None
    /\ op = "idle"
    /\ quantity = None
    /\ unit = None
    /\ converted = None
    /\ ingredients = <<>>
    /\ recipe_multipliers = <<>>
    /\ combined = <<>>
    /\ pantryFile \in PantryFiles
    /\ pantryCache = None
    /\ call = None
    /\ returned = None
    /\ threads = <<>>
    /\ watcher = NewWatcher

NextShopping ==
    \/ GenerateShoppingList
    \/ Return

\* The shopping-list handler, under each version of the two files.
ShoppingSpec == ShoppingInit /\ [][NextShopping]_vars

\* The watcher as main.py makes it: not started, no timer.
WatchInit ==
    /\ zoneFile = None
    /\ zoneCache = None
    /\ op = "idle"
    /\ quantity = None
    /\ unit = None
    /\ converted = None
    /\ ingredients = <<>>
    /\ recipe_multipliers = <<>>
    /\ combined = <<>>
    /\ pantryFile = None
    /\ pantryCache = None
    /\ call = None
    /\ returned = None
    /\ threads = <<>>
    /\ watcher = NewWatcher

NextDebounce ==
    \/ StartWatcher
    \/ OnAnyEvent
    \/ \E t \in 1..MaxTimers : t <= Len(watcher.timers) /\ TimerExpire(t)
    \/ \E t \in 1..MaxTimers : t <= Len(watcher.timers) /\ TimerReturn(t)

\* The watcher at work: events and timers.
DebounceSpec == WatchInit /\ [][NextDebounce]_vars

NextStop ==
    \/ StartWatcher
    \/ OnAnyEvent
    \/ \E t \in 1..MaxTimers : t <= Len(watcher.timers) /\ TimerExpire(t)
    \/ \E t \in 1..MaxTimers : t <= Len(watcher.timers) /\ TimerReturn(t)
    \/ StopCall
    \/ StopCancel
    \/ StopObserver
    \/ ObserverExit
    \/ StopJoin

\* The watcher from start() to the return of stop().
StopSpec == WatchInit /\ [][NextStop]_vars

\* The process starts with empty caches, whatever the two files are.
CacheInit ==
    /\ zoneFile \in RuleFiles
    /\ zoneCache = None
    /\ op = "idle"
    /\ quantity = None
    /\ unit = None
    /\ converted = None
    /\ ingredients = <<>>
    /\ recipe_multipliers = <<>>
    /\ combined = <<>>
    /\ pantryFile \in PantryFiles
    /\ pantryCache = None
    /\ call = None
    /\ returned = None
    /\ threads = <<>>
    /\ watcher = NewWatcher

NextCache ==
    \/ GetCategory
    \/ IsPantryItem
    \/ Return
    \/ ReloadCategories
    \/ ReloadPantry
    \/ EditZoneFile
    \/ EditPantryFile

\* Lookups, edits of the two files and reloads, in any order.
CacheSpec == CacheInit /\ [][NextCache]_vars

NextConfig ==
    \/ GetCategory
    \/ IsPantryItem
    \/ FilterPantryItems
    \/ Return
    \/ ReloadCategories
    \/ ReloadPantry
    \/ EditZoneFile
    \/ EditPantryFile

\* Lookups and the pantry filter, while the two files are edited, created
\* and deleted.
ConfigSpec == CacheInit /\ [][NextConfig]_vars

ConcurrentInit ==
    /\ zoneFile \in RuleFiles
    /\ zoneCache = None
    /\ op = "idle"
    /\ quantity = None
    /\ unit = None
    /\ converted = None
    /\ ingredients = <<>>
    /\ recipe_multipliers = <<>>
    /\ combined = <<>>
    /\ pantryFile = None
    /\ pantryCache = None
    /\ call = None
    /\ returned = None
    /\ threads = [t \in Threads |-> IdleThread]
    /\ watcher = NewWatcher

NextConcurrent ==
    \/ \E t \in Threads : LoadCall(t)
    \/ \E t \in Threads : LoadOpen(t)
    \/ \E t \in Threads : LoadLine(t)
    \/ \E t \in Threads : LoadEnd(t)
    \/ \E t \in Threads : LoadStore(t)
    \/ \E t \in Threads : LoadDone(t)
    \/ ReloadCategories
    \/ EditZoneFile

\* Threads in _load_zones(), each at its own step, while the cache is
\* cleared and the file replaced.
ConcurrentSpec == ConcurrentInit /\ [][NextConcurrent]_vars

NextSnapshot ==
    \/ CombineBegin
    \/ CombineLoadCall
    \/ CombineCategory
    \/ CombineKeyCategory
    \/ CombineKeyOrder
    \/ CombineReturn
    \/ LoadCall("timer")
    \/ LoadDone("timer")
    \/ \E t \in Threads : LoadOpen(t)
    \/ \E t \in Threads : LoadLine(t)
    \/ \E t \in Threads : LoadEnd(t)
    \/ \E t \in Threads : LoadStore(t)
    \/ ReloadCategories
    \/ UserEditsZoneFile

\* combine_ingredients on the request thread, one _load_zones() after the
\* other, while the timer thread's scan calls get_category and the file
\* is edited; the rules are reloaded between requests only.
SnapshotSpec == ConcurrentInit /\ [][NextSnapshot]_vars

----------------------------------------------------------------------------
(* Properties of convert_to_metric, under ConvertSpec *)

Converting == op = "convert_to_metric"

Result == Val(converted)

gram == <<"g">>
kilogram == <<"k", "g">>

Returns(q, u) == Result = [quantity |-> Some(q), unit |-> Some(u)]

\* C4, as stated: the kilogram threshold is inclusive at 1000 and applies to
\* gram input: convert_to_metric(999, "g") is (999, "g") and
\* convert_to_metric(1000, "g") is (1.0, "kg").
C4_GramInputRescaled ==
    Converting /\ unit = Some(gram) =>
        /\ quantity = Some(999000) => Returns(999000, gram)
        /\ quantity = Some(1000000) => Returns(1000, kilogram)

\* C4, amended: gram input passes through whatever its quantity, so
\* convert_to_metric(999, "g") is (999, "g") and convert_to_metric(1000, "g")
\* is (1000, "g"); the threshold applies to the grams computed from oz and lb:
\* 35.27 oz (999.89 g) stays in grams, 35.28 oz (1000.17 g) is 1.0 kg.
C4_GramInputPassesThrough ==
    Converting =>
        /\ unit = Some(gram) /\ quantity = Some(999000) => Returns(999000, gram)
        /\ unit = Some(gram) /\ quantity = Some(1000000) => Returns(1000000, gram)
        /\ unit = Some(oz) /\ quantity = Some(35270) => Returns(1000000, gram)
        /\ unit = Some(oz) /\ quantity = Some(35280) => Returns(1000, kilogram)

C4_Witness ==
    Converting /\ unit = Some(gram) /\ quantity = Some(1000000)
        /\ Returns(1000000, gram)

\* C5: convert_to_metric is idempotent on its own output: converting a result
\* whose unit is g, kg, ml or l again returns that result.
C5_Idempotent ==
    Converting /\ Result.unit \in Optional(METRIC_UNITS) \ {None} =>
        convert_to_metric(Result.quantity, Result.unit) = Result

C5_Witness ==
    Converting /\ unit = Some(oz) /\ quantity = Some(35270)
        /\ Returns(1000000, gram)

StripLower(u) == Strip(Lower(u))

Recognized(u) ==
    StripLower(u) \in NON_CONVERTIBLE \cup WEIGHT_UNITS \cup VOLUME_UNITS

\* C6: for a unit of the declared table the unit returned is g, kg, ml, l or
\* the unit given; a unit no table holds is returned unchanged, with its
\* quantity.
C6_UnitClosed ==
    Converting /\ ~IsNone(unit) =>
        /\ Val(unit) \in DeclaredUnits =>
               Result.unit \in Optional(METRIC_UNITS) \cup {unit}
        /\ ~Recognized(Val(unit)) =>
               Result = [quantity |-> quantity, unit |-> unit]

C6_Witness ==
    Converting /\ unit = Some(cup) /\ quantity = Some(8000)
        /\ Returns(1890, <<"l">>)

----------------------------------------------------------------------------
(* Properties of combine_ingredients, under CombineSpec *)

Combining == op = "combine_ingredients"

\* The rule set the call read.
Rules == IF IsNone(zoneCache) THEN <<>> ELSE Val(zoneCache)

\* The lines as converted: each scaled quantity through convert_to_metric.
ConvertedLines ==
    [i \in 1..Len(ingredients) |->
        GroupedItem(ingredients[i], recipe_multipliers)]

\* The key of each line: (normalized name, unit after conversion).
LineKeys ==
    LET lines == ConvertedLines
    IN  [i \in 1..Len(lines) |-> <<lines[i].norm_name, lines[i].unit>>]

\* The key of each entry of the result.
EntryKeys ==
    [e \in 1..Len(combined) |->
        <<normalize_ingredient_name(combined[e].name), combined[e].unit>>]

\* The lines that have the key, keys being the keys of the lines.
LinesOf(keys, key) == {i \in 1..Len(keys) : keys[i] = key}

\* Those of them that have a quantity.
Quantified(keys, key) ==
    {i \in LinesOf(keys, key) : ~IsNone(ingredients[i].quantity)}

\* The plain sum of the converted quantities of the lines 1..n that have the
\* key, a missing quantity counting for nothing.
RECURSIVE PlainSum(_, _, _, _)
PlainSum(lines, keys, key, n) ==
    IF n = 0 THEN 0
    ELSE PlainSum(lines, keys, key, n - 1)
         + (IF keys[n] = key /\ ~IsNone(lines[n].quantity)
            THEN Val(lines[n].quantity) ELSE 0)

\* C1: two lines are summed into the same entry if and only if their keys
\* (normalized name, unit after conversion) are equal, whatever their units
\* before conversion; the entries have pairwise distinct keys.
C1_GroupedByKey ==
    Combining =>
        LET lines == ConvertedLines
            keys == LineKeys
            entries == EntryKeys
        IN  /\ \A e, f \in 1..Len(entries) : entries[e] = entries[f] => e = f
            /\ {entries[e] : e \in 1..Len(entries)}
                   = {keys[i] : i \in 1..Len(keys)}
            /\ \A e \in 1..Len(entries) :
                   Quantified(keys, entries[e]) # {} =>
                       combined[e].quantity
                           = Some(PlainSum(lines, keys, entries[e], Len(keys)))

\* 8 oz and 0.5 lb of butter, unscaled: one entry of 227 g + 227 g.
C1_Witness ==
    /\ Combining
    /\ ingredients = << Line(1, Some(8000), Some(oz), Butter),
                        Line(2, Some(500), Some(lb), butter) >>
    /\ recipe_multipliers = (1 :> Ratio(1, 1))
    /\ Len(combined) = 1
    /\ combined[1].quantity = Some(454000)
    /\ combined[1].unit = Some(gram)

\* The orders the lines can be supplied in.
Reorderings(ings) ==
    { [i \in 1..Len(ings) |-> ings[p[i]]] : p \in Permutations(1..Len(ings)) }

\* C2, as stated: whatever the order of the lines, the result is the same:
\* the same entries (name, quantity, unit, display, category), in the same
\* order.
C2_SameOutputInAnyOrder ==
    Combining =>
        \A ings \in Reorderings(ingredients) :
            combine_ingredients(ings, recipe_multipliers, Rules) = combined

\* What the order of the lines does not decide: the groups and their totals.
Totals(entries) ==
    { <<normalize_ingredient_name(entries[e].name), entries[e].unit,
        entries[e].quantity>> : e \in 1..Len(entries) }

\* C2, amended: whatever the order of the lines, the result has the same
\* groups (normalized name, unit), one entry each, with the same total; the
\* name, display and category of an entry, and so the order of the entries,
\* follow the line that comes first.
C2_SameTotalsInAnyOrder ==
    Combining =>
        \A ings \in Reorderings(ingredients) :
            LET other == combine_ingredients(ings, recipe_multipliers, Rules)
            IN  /\ Len(other) = Len(combined)
                /\ Totals(other) = Totals(combined)

\* Three lines, two of one group, whose order changes the output.
C2_Witness ==
    /\ Combining
    /\ Len(ingredients) = 3
    /\ Len(combined) = 2
    /\ \E ings \in Reorderings(ingredients) :
           combine_ingredients(ings, recipe_multipliers, Rules) # combined

TwoCupsAndOneCup ==
    /\ Combining
    /\ ingredients = << Line(1, Some(2000), Some(cup), milk),
                        Line(2, Some(1000), Some(cup), milk) >>
    /\ recipe_multipliers = (1 :> Ratio(2, 1)) @@ (2 :> Ratio(1, 1))

\* C3, as stated: "2 cups milk" at multiplier 2.0 and "1 cup milk" at 1.0
\* give one group whose total, 1182.94 ml, is rendered in litres:
\* "milk 1.18l".
C3_RenderedInLitres ==
    TwoCupsAndOneCup =>
        /\ Len(combined) = 1
        /\ combined[1].unit = Some(<<"l">>)
        /\ combined[1].display = milk \o <<" ", "1", ".", "1", "8", "l">>

\* C3, amended: they give one group; each line is converted and rounded on
\* its own (946 ml and 237 ml, each below 1000 ml), the total is 1183 ml and
\* stays in millilitres: "milk 1183ml".
C3_RenderedInMillilitres ==
    TwoCupsAndOneCup =>
        /\ Len(combined) = 1
        /\ combined[1].quantity = Some(1183000)
        /\ combined[1].unit = Some(<<"m", "l">>)
        /\ combined[1].display = milk \o <<" ", "1", "1", "8", "3", "m", "l">>

C3_Witness == TwoCupsAndOneCup /\ Len(combined) = 1

\* C7: rounding happens once per line, in convert_to_metric: the quantity of
\* an entry is the plain sum of the rounded quantities of its lines and its
\* unit is their converted unit; the total is neither rounded nor
\* re-expressed.
C7_RoundedOncePerLine ==
    Combining =>
        LET lines == ConvertedLines
            keys == LineKeys
            entries == EntryKeys
        IN  \A e \in 1..Len(entries) :
                /\ \A i \in LinesOf(keys, entries[e]) :
                       combined[e].unit = lines[i].unit
                /\ ~IsNone(combined[e].quantity) =>
                       Val(combined[e].quantity)
                           = PlainSum(lines, keys, entries[e], Len(keys))

\* Three lines of butter, 227 g + 567 g + 567 g: 1361 g, left in grams.
C7_Witness ==
    /\ Combining
    /\ Len(combined) = 1
    /\ combined[1].unit = Some(gram)
    /\ combined[1].quantity = Some(1361000)
    /\ Len(ingredients) = 3

\* C8: the total of a group is None if and only if every line of the group
\* has quantity None; otherwise it is the sum of the quantities there are, so
\* a group whose quantified lines are all 0 has total 0.
C8_NoneIffNoQuantity ==
    Combining =>
        LET lines == ConvertedLines
            keys == LineKeys
            entries == EntryKeys
        IN  \A e \in 1..Len(entries) :
                LET quantified == Quantified(keys, entries[e])
                IN  /\ IsNone(combined[e].quantity) <=> quantified = {}
                    /\ quantified # {} =>
                           combined[e].quantity
                               = Some(PlainSum(lines, keys, entries[e],
                                               Len(keys)))
                    /\ ( /\ quantified # {}
                         /\ \A i \in quantified :
                                ingredients[i].quantity = Some(0) )
                       => combined[e].quantity = Some(0)

\* A line without quantity and a line of quantity 0 in one group: total 0.
C8_Witness ==
    /\ Combining
    /\ \E e \in 1..Len(combined) :
           /\ combined[e].quantity = Some(0)
           /\ \E i \in LinesOf(LineKeys, EntryKeys[e]) :
                  IsNone(ingredients[i].quantity)

\* C9: the name of an entry is the name, as written, of the first line of
\* its group in input order; later spellings never replace it.
C9_FirstSeenName ==
    Combining =>
        LET keys == LineKeys
            entries == EntryKeys
        IN  \A e \in 1..Len(entries) :
                \E i \in LinesOf(keys, entries[e]) :
                    /\ \A j \in LinesOf(keys, entries[e]) : i <= j
                    /\ combined[e].name = ingredients[i].name

\* "Onions" first, "onion" after it: the entry is named "Onions".
C9_Witness ==
    /\ Combining
    /\ \E e \in 1..Len(combined) :
           /\ combined[e].name = Onions
           /\ \E i \in LinesOf(LineKeys, EntryKeys[e]) :
                  ingredients[i].name = onion

SortKey(e) ==
    [order |-> get_category_order(Rules, combined[e].category),
     name  |-> Lower(combined[e].name)]

\* C10: the result is in non-decreasing order of
\* (get_category_order(zone), lowercased name).
C10_SortedByZoneThenName ==
    Combining =>
        \A e, f \in 1..Len(combined) :
            e < f => ~KeyLess(SortKey(f), SortKey(e))

\* Three entries: the zone decides before the name ("Onions" comes first),
\* the name within a zone ("butter" before "milk").
C10_Witness ==
    /\ Combining
    /\ Len(combined) = 3
    /\ SortKey(1).order < SortKey(2).order
    /\ SortKey(2).order = SortKey(3).order
    /\ StrLess(SortKey(2).name, SortKey(3).name)
    /\ StrLess(SortKey(2).name, SortKey(1).name)

----------------------------------------------------------------------------
(* Properties of combine_ingredients: the default multiplier *)

\* The lines converted as the multiplier table has them: scaled by the
\* multiplier of their recipe, and left as they are when it has none.
DefaultScaledLines ==
    [i \in 1..Len(ingredients) |->
        LET ing == ingredients[i]
            q == IF IsNone(ing.quantity)
                     \/ ing.recipe_id \notin DOMAIN recipe_multipliers
                 THEN ing.quantity
                 ELSE Some(Scaled(Val(ing.quantity),
                                  recipe_multipliers[ing.recipe_id]))
        IN  convert_to_metric(q, ing.unit)]

\* C11: no line is dropped. A line whose recipe_id is not a key of
\* recipe_multipliers is scaled by 1.0, and every line is in exactly one
\* entry: the entry of its key, whose total counts it.
C11_NoLineDropped ==
    Combining =>
        LET lines == DefaultScaledLines
            keys == [i \in 1..Len(ingredients) |->
                        <<normalize_ingredient_name(ingredients[i].name),
                          lines[i].unit>>]
            entries == EntryKeys
        IN  /\ \A i \in 1..Len(keys) :
                   Cardinality({e \in 1..Len(entries) : entries[e] = keys[i]}) = 1
            /\ \A e \in 1..Len(entries) :
                   Quantified(keys, entries[e]) # {} =>
                       combined[e].quantity
                           = Some(PlainSum(lines, keys, entries[e], Len(keys)))

\* Recipe 2 has no multiplier: its cup of milk is added as it is to the two
\* cups of recipe 1, 473 ml + 237 ml.
C11_Witness ==
    /\ Combining
    /\ ingredients = << Line(1, Some(2000), Some(cup), milk),
                        Line(2, Some(1000), Some(cup), milk) >>
    /\ recipe_multipliers = (1 :> Ratio(1, 1))
    /\ Len(combined) = 1
    /\ combined[1].quantity = Some(710000)

----------------------------------------------------------------------------
(* Properties of the zone classifier, under ClassifySpec *)

Classifying == op = "get_category"
Ordering == op = "get_category_order"

\* Rule i of the rule set has a pattern that is a substring of the
\* lowercased name.
MatchesRule(zones, i, name) ==
    \E k \in 1..Len(zones[i].patterns) :
        Contains(Lower(name), zones[i].patterns[k])

\* Rule i is the first rule that matches the name.
FirstMatch(zones, i, name) ==
    /\ MatchesRule(zones, i, name)
    /\ \A j \in 1..(i - 1) : ~MatchesRule(zones, j, name)

\* C12, as stated: get_category returns the zone of the first rule that
\* has a pattern contained in the lowercased name, whatever rules follow,
\* and it returns "unzoned" if and only if no rule matches.
C12_FirstMatchElseUnzoned ==
    Classifying =>
        LET zones == Rules
            name == Val(call)
        IN  /\ \A i \in 1..Len(zones) :
                   FirstMatch(zones, i, name) => Val(returned) = zones[i].zone
            /\ Val(returned) = unzoned
                   <=> \A i \in 1..Len(zones) : ~MatchesRule(zones, i, name)

\* C13, as stated: the order of the zone of a name whose first matching
\* rule is rule i (from 0) is i.
C13_OrderIsRuleIndex ==
    Ordering =>
        LET zones == Rules
        IN  \A name \in ItemNames : \A i \in 1..Len(zones) :
                FirstMatch(zones, i, name)
                    /\ get_category(zones, name) = Val(call)
                    => Val(returned) = i - 1

\* C13, amended: the order of the zone is the index of the first rule that
\* has the zone's name: the index of the matching rule when no earlier rule
\* has its name, and never more than it.
C13_OrderIsFirstRuleOfZone ==
    Ordering =>
        LET zones == Rules
        IN  \A name \in ItemNames : \A i \in 1..Len(zones) :
                FirstMatch(zones, i, name)
                    /\ get_category(zones, name) = Val(call)
                    => /\ Val(returned) <= i - 1
                       /\ zones[Val(returned) + 1].zone = zones[i].zone
                       /\ \A j \in 1..Val(returned) :
                              zones[j].zone # zones[i].zone

\* "red bell pepper" matches the third rule, "produce: pepper"; the order
\* of "produce" is that of the first rule, 0.
C13_Witness ==
    /\ Ordering
    /\ zoneCache = Some(ParseZones(ZoneFileC))
    /\ FirstMatch(Rules, 3, red_bell_pepper)
    /\ Val(call) = get_category(Rules, red_bell_pepper)
    /\ Val(returned) = 0

\* C14, as stated: the order of "unzoned" is the number of configured
\* zones, so that a name no rule matches sorts after every name that a
\* rule matches.
C14_UnzonedSortsLast ==
    Ordering /\ Val(call) = unzoned =>
        LET zones == Rules
        IN  /\ Val(returned) = Len(zones)
            /\ \A name \in ItemNames :
                   (\E i \in 1..Len(zones) : MatchesRule(zones, i, name))
                       => get_category_order(zones, get_category(zones, name))
                              < Val(returned)

----------------------------------------------------------------------------
(* Properties of filter_pantry_items, under PantrySpec *)

Filtering == op = "filter_pantry_items"

Patterns == IF IsNone(pantryCache) THEN <<>> ELSE Val(pantryCache)

\* The lowercased name contains a pantry pattern.
InPantry(name) ==
    \E k \in 1..Len(Patterns) : Contains(Lower(name), Patterns[k])

\* C15: the shopping list is the items whose lowercased name contains no
\* pantry pattern, whole and in the order of the input; of the other items
\* the names are kept, each once, in ascending order.
C15_Partitioned ==
    Filtering =>
        LET items == Val(call)
            shopping == Val(returned).shopping
            pantry_names == Val(returned).pantry_names
            kept == {i \in 1..Len(items) : ~InPantry(items[i].name)}
        IN  /\ Len(shopping) = Cardinality(kept)
            /\ \A i \in kept :
                   shopping[Cardinality({j \in kept : j <= i})] = items[i]
            /\ {pantry_names[k] : k \in 1..Len(pantry_names)}
                   = {items[i].name : i \in (1..Len(items)) \ kept}
            /\ \A k, l \in 1..Len(pantry_names) :
                   k < l => StrLess(pantry_names[k], pantry_names[l])

\* "Salt" twice and "Sea salt" are pantry items, kept once each and
\* sorted; "Onions" alone is left on the shopping list.
C15_Witness ==
    /\ Filtering
    /\ Val(call) = << Item(Sea_salt, None), Item(Onions, None),
                      Item(Salt, Some(1000)) >>
    /\ Val(returned).shopping = << Item(Onions, None) >>
    /\ Val(returned).pantry_names = << Salt, Sea_salt >>

----------------------------------------------------------------------------
(* Properties of the two caches, under CacheSpec *)

\* C16: a rule set is loaded at its first use and held. A lookup that finds
\* a loaded rule set uses it, whatever the file has become; one that finds
\* none loads the file as it is, and uses that; and a loaded rule set is
\* given up at reload_categories (the zones) or reload_pantry (the pantry
\* patterns), and at no other step.
C16_LoadedOnceUntilReload ==
    [][ /\ op' = "get_category" =>
               /\ zoneCache' = IF IsNone(zoneCache)
                                THEN Some(ReadZones(zoneFile)) ELSE zoneCache
               /\ returned' = Some(get_category(Val(zoneCache'), Val(call')))
        /\ op' = "is_pantry_item" =>
               /\ pantryCache' = IF IsNone(pantryCache)
                                  THEN Some(ReadPantry(pantryFile))
                                  ELSE pantryCache
               /\ returned' = Some(is_pantry_item(Val(pantryCache'), Val(call')))
        /\ ~IsNone(zoneCache) /\ zoneCache' # zoneCache => ReloadCategories
        /\ ~IsNone(pantryCache) /\ pantryCache' # pantryCache => ReloadPantry
      ]_vars

\* The zone file was edited after the load and not reloaded: "salt" is
\* classified by the rules loaded before, not by those of the file.
C16_Witness ==
    /\ Classifying
    /\ Val(call) = salt
    /\ zoneCache = Some(ParseZones(ZoneFileA))
    /\ zoneFile = Some(ZoneFileB)
    /\ Val(returned) = unzoned
    /\ get_category(ReadZones(zoneFile), salt) # unzoned

----------------------------------------------------------------------------
(* Properties of the zone cache under concurrent callers, under
   ConcurrentSpec *)

\* The rule sets that are the whole parse of a version of the file.
WholeRuleSets == {ReadZones(file) : file \in RuleFiles}

\* C17: while reloads run beside readers, what a reader gets from
\* _load_zones(), and what the cache holds, is the whole parse of the file
\* as one load found it, never a part of one.
C17_WholeRuleSetOnly ==
    /\ \A t \in Threads :
           threads[t].pc = "returned" => Val(threads[t].result) \in WholeRuleSets
    /\ ~IsNone(zoneCache) => Val(zoneCache) \in WholeRuleSets

\* The request thread has the rules of file A, loaded before the file was
\* replaced and the cache cleared; the timer thread is half-way through
\* file B.
C17_Witness ==
    /\ threads["request"].pc = "returned"
    /\ threads["request"].result = Some(ParseZones(ZoneFileA))
    /\ zoneFile = Some(ZoneFileB)
    /\ IsNone(zoneCache)
    /\ threads["timer"].pc = "read"
    /\ Len(threads["timer"].zones) = 1
    /\ Len(threads["timer"].lines) = 1

----------------------------------------------------------------------------
(* Properties of parse_ingredient_line, under ParseLineSpec *)

ParsingLine == op = "parse_ingredient_line"

\* The four forms of a quantity, at the start of a line after the bullet
\* if it has one: N M/D, M/D, A-B, and a number.
AfterBullet(form) ==
    Cat(<<Bol, Opt(Cat(<<Chr({"-", "*"}), Star(Space)>>))>> \o form)

MixedForm ==
    AfterBullet(<<Group(1, Digits), Plus(Space), Group(2, Digits),
                  Lit(<<"/">>), Group(3, Digits)>>)

FractionForm == AfterBullet(<<Group(1, Digits), Lit(<<"/">>), Group(2, Digits)>>)

RangeForm ==
    AfterBullet(<<Group(1, Number), Star(Space), Lit(<<"-">>), Star(Space),
                  Group(2, Number)>>)

NumberForm == AfterBullet(<<Group(1, Number)>>)

\* The groups of the form as the line has it, <<>> if it does not start
\* with the form.
FormGroups(form, ngroups, line) ==
    LET m == ReMatch(form, ngroups, line)
    IN  IF IsNone(m) THEN <<>>
        ELSE [n \in 1..ngroups |-> Val(GroupOf(line, Val(m), n))]

\* The quantity q (thousandths) is the one the highest-priority form at
\* the start of the line gives: N + M/D, M/D, B of A-B, the number, or
\* none; a fraction with denominator 0 is left open.
IsQuantityOfLine(q, line) ==
    LET mixed == FormGroups(MixedForm, 3, line)
        fraction == FormGroups(FractionForm, 2, line)
        range == FormGroups(RangeForm, 2, line)
        number == FormGroups(NumberForm, 1, line)
    IN  IF mixed # <<>> THEN
            StrToInt(mixed[3]) # 0 =>
                /\ ~IsNone(q)
                /\ Val(q) * StrToInt(mixed[3])
                       = Milli * (StrToInt(mixed[1]) * StrToInt(mixed[3])
                                  + StrToInt(mixed[2]))
        ELSE IF fraction # <<>> THEN
            StrToInt(fraction[2]) # 0 =>
                /\ ~IsNone(q)
                /\ Val(q) * StrToInt(fraction[2]) = Milli * StrToInt(fraction[1])
        ELSE IF range # <<>> THEN q = Some(StrToFloat(range[2]))
        ELSE IF number # <<>> THEN q = Some(StrToFloat(number[1]))
        ELSE IsNone(q)

\* C18, as stated: the quantity of a parsed line that is not a "to taste"
\* line is that of the highest-priority form the line starts with: mixed
\* fraction (N + M/D), fraction, range (its upper bound), number.
C18_HighestPriorityForm ==
    ParsingLine /\ ~IsNone(Val(returned))
                /\ ~Contains(Lower(Val(call)), to_taste) =>
        IsQuantityOfLine(Val(Val(returned)).quantity, Strip(Val(call)))

\* C19, as stated: a result of parse_ingredient_line has a name that is not
\* empty.
C19_NameNeverEmpty ==
    ParsingLine /\ ~IsNone(Val(returned)) => Val(Val(returned)).name # <<>>

----------------------------------------------------------------------------
(* Properties of parse_recipe, under ParseRecipeSpec *)

ParsingRecipe == op = "parse_recipe"

\* The lines of the document, and those that are the heading of the
\* ingredients section.
DocLines(content) == SplitOn(content, "\n", <<>>, <<>>)

IsSectionHeading(line) ==
    Lower(Strip(line)) = <<"#", "#", " ", "i", "n", "g", "r", "e", "d", "i", "e", "n", "t",
          "s">>

\* The lines under the first heading of the section, up to the next line
\* that starts with "##" or to the end.
RECURSIVE UpToNextHeading(_)
UpToNextHeading(lines) ==
    IF lines = <<>> THEN <<>>
    ELSE IF Len(Head(lines)) >= 2 /\ SubSeq(Head(lines), 1, 2) = <<"#", "#">>
    THEN <<>>
    ELSE <<Head(lines)>> \o UpToNextHeading(Tail(lines))

SectionLines(content) ==
    LET lines == DocLines(content)
        first == CHOOSE i \in 1..Len(lines) :
                     /\ IsSectionHeading(lines[i])
                     /\ \A j \in 1..(i - 1) : ~IsSectionHeading(lines[j])
    IN  UpToNextHeading(SubSeq(lines, first + 1, Len(lines)))

HasSection(content) ==
    \E i \in 1..Len(DocLines(content)) : IsSectionHeading(DocLines(content)[i])

\* C20, as stated: the error is set if and only if the ingredient list is
\* empty; a document without the section has the error "Missing ...", one
\* whose section has no line that parses has "No ingredients found ...",
\* and a result with ingredients has no error.
C20_ErrorIffNoIngredients ==
    ParsingRecipe =>
        LET content == Val(call).content
            recipe == Val(returned)
        IN  /\ ~IsNone(recipe.error) <=> recipe.ingredients = <<>>
            /\ ~HasSection(content) => recipe.error = MISSING_SECTION
            /\ HasSection(content)
                   /\ (\A i \in 1..Len(SectionLines(content)) :
                          IsNone(parse_ingredient_line(SectionLines(content)[i])))
                   => recipe.error = NO_INGREDIENTS

\* The integer of a line "Servings: <integer>" (in any case), or None.
RECURSIVE LeadingDigits(_)
LeadingDigits(s) ==
    IF s # <<>> /\ Head(s) \in Digit.set
    THEN <<Head(s)>> \o LeadingDigits(Tail(s))
    ELSE <<>>

ServingsOfLine(line) ==
    LET word == <<"s", "e", "r", "v", "i", "n", "g", "s", ":">>
        rest == LStrip(SubSeq(line, Len(word) + 1, Len(line)))
    IN  IF Len(line) >= Len(word)
           /\ Lower(SubSeq(line, 1, Len(word))) = word
           /\ LeadingDigits(rest) # <<>>
        THEN Some(StrToInt(LeadingDigits(rest)))
        ELSE None

RECURSIVE FirstServings(_)
FirstServings(lines) ==
    IF lines = <<>> THEN None
    ELSE IF ~IsNone(ServingsOfLine(Head(lines)))
    THEN ServingsOfLine(Head(lines))
    ELSE FirstServings(Tail(lines))

\* C21, as stated: the servings of every parsed recipe are a positive
\* integer, the integer of the first line "Servings: <integer>" of the
\* document, and 4 when there is no such line.
C21_ServingsPositive ==
    ParsingRecipe =>
        LET first == FirstServings(DocLines(Val(call).content))
            servings == Val(returned).servings
        IN  /\ servings \in Nat \ {0}
            /\ servings = (IF IsNone(first) THEN 4 ELSE Val(first))

----------------------------------------------------------------------------
(* Properties of generate_shopping_list, under ShoppingSpec *)

Shopping == op = "generate_shopping_list"

\* The pantry patterns in force: those of the cache, or of the file when
\* nothing is loaded.
Configured ==
    IF IsNone(pantryCache) THEN ReadPantry(pantryFile) ELSE Val(pantryCache)

\* The lowercased name contains a pattern in force.
MatchesPantry(name) ==
    \E k \in 1..Len(Configured) : Contains(Lower(name), Configured[k])

\* How many times x is in the sequence s.
Count(s, x) == Cardinality({i \in 1..Len(s) : s[i] = x})

\* The entry a requested item is merged as.
Requested(item) ==
    [name |-> item, quantity |-> None, unit |-> None, display |-> item,
     category |-> get_category(Rules, item)]

\* The recipe-derived entries that the pantry filter lets through.
Survivors == SelectSeq(combined, LAMBDA e : ~MatchesPantry(e.name))

ShoppingKey(e) ==
    [order |-> get_category_order(Rules, e.category), name |-> Lower(e.name)]

\* C22: the final list holds the recipe-derived entries that survived the
\* pantry filter and, for each additional item, an entry with the zone
\* get_category gives it, no quantity and no unit; nothing else; and it is
\* in non-decreasing order of (zone order, lowercased name).
C22_AdditionalMergedAndSorted ==
    Shopping =>
        LET items == Val(returned).shopping_items
            additional == Val(call).request.additional_items
            entries == [k \in 1..Len(additional) |-> Requested(additional[k])]
        IN  /\ Len(items) = Len(Survivors) + Len(additional)
            /\ \A i \in 1..Len(items) :
                   Count(items, items[i])
                       = Count(Survivors, items[i]) + Count(entries, items[i])
            /\ \A k \in 1..Len(additional) : Count(items, entries[k]) > 0
            /\ \A i, j \in 1..Len(items) :
                   i < j => ~KeyLess(ShoppingKey(items[j]), ShoppingKey(items[i]))

\* "milk" and "Apples" are added to a list of two recipes: "milk" is put in
\* the zone dairy, between the recipe's entries, and "Apples", unzoned, last.
C22_Witness ==
    /\ Shopping
    /\ Val(call).request.additional_items = << milk, Apples >>
    /\ Len(Val(returned).shopping_items) = 4
    /\ Val(returned).shopping_items[1].name = Onions
    /\ ~IsNone(Val(returned).shopping_items[2].quantity)
    /\ Val(returned).shopping_items[3] = Requested(milk)
    /\ Val(returned).shopping_items[3].category = <<"d", "a", "i", "r", "y">>
    /\ Val(returned).shopping_items[4] = Requested(Apples)
    /\ Val(returned).shopping_items[4].category = unzoned

\* The last selection of recipe r in the request.
LastSelection(selections, r) ==
    selections[CHOOSE i \in 1..Len(selections) :
                   /\ selections[i].recipe_id = r
                   /\ \A j \in (i + 1)..Len(selections) :
                          selections[j].recipe_id # r]

\* C23: the multiplier the combiner uses for a selected recipe is
\* target_servings / base_servings (of the last selection of the recipe)
\* when the recipe exists with servings above 0, and 1.0 when its servings
\* are 0 or it does not exist; no multiplier is a division by zero, and
\* under 1.0 every quantity is the original one.
C23_MultiplierOrOne ==
    Shopping =>
        LET selections == Val(call).request.selections
            table == Val(call).db.recipes
        IN  \A s \in 1..Len(selections) :
                LET r == selections[s].recipe_id
                    m == MultiplierOf(recipe_multipliers, r)
                IN  /\ m.den # 0
                    /\ IF r \in DOMAIN table /\ table[r] > 0
                       THEN m = [num |-> LastSelection(selections, r).target_servings,
                                 den |-> table[r]]
                       ELSE /\ m = [num |-> 1, den |-> 1]
                            /\ \A i \in 1..Len(ingredients) :
                                   ingredients[i].recipe_id = r
                                   /\ ~IsNone(ingredients[i].quantity)
                                   => Scaled(Val(ingredients[i].quantity), m)
                                          = Val(ingredients[i].quantity)

\* Recipe 1 (4 servings) is wanted for 6 and recipe 2 (no servings) for 2:
\* the multipliers are 6/4 and 1.0, and the 3 pinches of salt of recipe 2
\* stay 3.
C23_Witness ==
    /\ Shopping
    /\ Val(call).request.selections = << Selection(1, 6), Selection(2, 2) >>
    /\ 2 \in DOMAIN Val(call).db.recipes
    /\ Val(call).db.recipes[2] = 0
    /\ DOMAIN recipe_multipliers = {1, 2}
    /\ recipe_multipliers[1] = [num |-> 6, den |-> 4]
    /\ recipe_multipliers[2] = [num |-> 1, den |-> 1]
    /\ \E i \in 1..Len(ingredients) :
           ingredients[i] = Line(2, Some(3000), Some(pinch), Salt)
    /\ \E e \in 1..Len(combined) :
           combined[e].name = Salt /\ combined[e].quantity = Some(3000)

\* C28, as stated: no entry of shopping_items has a name that matches a
\* pantry pattern.
C28_NoPantryItemOnList ==
    Shopping =>
        \A i \in 1..Len(Val(returned).shopping_items) :
            ~MatchesPantry(Val(returned).shopping_items[i].name)

\* C28, amended: an entry of shopping_items whose name matches a pantry
\* pattern is an additional item of the request, as often as the request
\* names it; a recipe-derived entry that matches is not on the list.
C28_OnlyRequestedPantryItems ==
    Shopping =>
        LET items == Val(returned).shopping_items
            additional == Val(call).request.additional_items
        IN  \A i \in 1..Len(items) :
                MatchesPantry(items[i].name) =>
                    /\ items[i] = Requested(items[i].name)
                    /\ Cardinality({j \in 1..Len(items) :
                                        items[j].name = items[i].name})
                           = Count(additional, items[i].name)

\* "Salt" is in a selected recipe and among the additional items, and
\* pantry.txt has "salt": the recipe's salt is a pantry item, the requested
\* one is on the shopping list.
C28_Witness ==
    /\ Shopping
    /\ Val(call).request.additional_items = << Salt >>
    /\ \E e \in 1..Len(combined) : combined[e].name = Salt
    /\ Val(returned).pantry_items = << Salt >>
    /\ Count(Val(returned).shopping_items, Requested(Salt)) = 1
    /\ \A i \in 1..Len(Val(returned).shopping_items) :
           Val(returned).shopping_items[i].name = Salt
               => IsNone(Val(returned).shopping_items[i].quantity)

----------------------------------------------------------------------------
(* Properties of the absent config files, under ConfigSpec *)

\* C24: a load that finds the file absent yields zero rules. A
\* get_category that loads then returns "unzoned", an is_pantry_item that
\* loads returns False, and a filter_pantry_items that loads returns its
\* input as the shopping list and no pantry name.
C24_AbsentFileNoRules ==
    [][/\ op' = "get_category" /\ IsNone(zoneCache) /\ IsNone(zoneFile)
           => zoneCache' = Some(<<>>) /\ returned' = Some(unzoned)
       /\ op' = "is_pantry_item" /\ IsNone(pantryCache) /\ IsNone(pantryFile)
           => pantryCache' = Some(<<>>) /\ returned' = Some(FALSE)
       /\ op' = "filter_pantry_items" /\ IsNone(pantryCache)
              /\ IsNone(pantryFile)
           => returned' = Some([shopping |-> Val(call'),
                                pantry_names |-> <<>>])]_vars

\* Both files are gone and both caches hold zero rules; "Salt", "Olive Oil"
\* and "milk" all stay on the shopping list.
C24_Witness ==
    /\ op = "filter_pantry_items"
    /\ IsNone(zoneFile) /\ zoneCache = Some(<<>>)
    /\ IsNone(pantryFile) /\ pantryCache = Some(<<>>)
    /\ Val(call) = << Item(Salt, Some(1000)), Item(Olive_Oil, Some(2000)),
                      Item(milk, Some(710000)) >>
    /\ Val(returned).shopping = Val(call)
    /\ Val(returned).pantry_names = <<>>

----------------------------------------------------------------------------
(* Properties of convert_to_metric: the threshold and the rounding *)

\* The call converts: a quantity of 0 or more in oz, lb, cup, tbsp, tsp or
\* fl oz.
Converts ==
    /\ Converting
    /\ ~IsNone(quantity) /\ ~IsNone(unit)
    /\ Val(quantity) >= 0
    /\ StripLower(Val(unit)) \in
           (WEIGHT_UNITS \cup VOLUME_UNITS) \ METRIC_UNITS

SmallUnits == { <<"g">>, <<"m", "l">> }
LargeUnits == { <<"k", "g">>, <<"l">> }

\* C25, as stated: a result in g or ml is strictly below 1000, and a result
\* in kg or l is at least 1.0.
C25_SmallUnitBelowThreshold ==
    Converts =>
        /\ Val(Result.unit) \in SmallUnits
               => Val(Result.quantity) < WEIGHT_THRESHOLD * Milli
        /\ Val(Result.unit) \in LargeUnits => Val(Result.quantity) >= Milli

\* C25, amended: a result in g or ml is at most 1000 (the threshold is
\* tested before the rounding, which may round up to it), and a result in
\* kg or l is at least 1.0.
C25_SmallUnitAtMostThreshold ==
    Converts =>
        /\ Val(Result.unit) \in SmallUnits \cup LargeUnits
        /\ Val(Result.unit) \in SmallUnits
               => Val(Result.quantity) <= WEIGHT_THRESHOLD * Milli
        /\ Val(Result.unit) \in LargeUnits => Val(Result.quantity) >= Milli

\* 35.27 oz are 999.887 g: below the threshold, and rounded to 1000 g.
C25_Witness ==
    /\ Converting
    /\ quantity = Some(35270)
    /\ unit = Some(oz)
    /\ Returns(1000000, gram)

----------------------------------------------------------------------------
(* Properties of the watcher's debounce, under DebounceSpec *)

Timers == watcher.timers

Pending(t) == Timers[t].state = "waiting" /\ ~Timers[t].finished

\* C26: every qualifying event cancels the timer before it and starts one,
\* so at most one timer is pending; a timer that was cancelled before it
\* expired never calls on_change_callback, so of a burst only the timer of
\* the last event calls it, once: it has when its thread has returned.
C26_OneCallbackPerBurst ==
    /\ Cardinality({t \in 1..Len(Timers) : Pending(t)}) <= 1
    /\ \A t \in 1..Len(Timers) :
           /\ Pending(t) => watcher._debounce_timer = t
           /\ Timers[t].preempted => ~Timers[t].called
           /\ t < Len(Timers) /\ ~Timers[t].called => Timers[t].preempted
           /\ Timers[t].state = "returned" /\ ~Timers[t].preempted
                  => Timers[t].called

\* A burst of three events: the first two timers were cancelled while
\* they waited and have returned without a call, the third has called.
C26_Witness ==
    /\ Len(Timers) = 3
    /\ Timers[1].preempted /\ Timers[1].state = "returned"
    /\ Timers[2].preempted /\ Timers[2].state = "returned"
    /\ ~Timers[1].called /\ ~Timers[2].called
    /\ Timers[3].called /\ Timers[3].state = "returned"

----------------------------------------------------------------------------
(* Properties of the watcher's stop(), under StopSpec *)

\* C27, as stated: once stop() has returned, no timer is pending and no
\* timer has called on_change_callback since.
C27_NoCallbackAfterStop ==
    watcher.stop = "returned" =>
        \A t \in 1..Len(Timers) : ~Pending(t) /\ ~Timers[t].late

----------------------------------------------------------------------------
(* Properties of combine_ingredients beside other threads, under
   SnapshotSpec *)

\* The list is in the order of (zone order, lowercased name) that the rule
\* set zones gives, and every entry has the zone that zones gives its name.
DerivedFrom(zones) ==
    /\ \A e \in 1..Len(combined) :
           combined[e].category = get_category(zones, combined[e].name)
    /\ \A e, f \in 1..Len(combined) :
           e < f => ~KeyLess(sort_key(zones, combined[f]),
                             sort_key(zones, combined[e]))

\* C29, as stated: the list combine_ingredients returns is derived from
\* one rule set: there is a version of the file whose rules give every
\* entry its zone and the list its order.
C29_OneRuleSetPerCall ==
    op = "combine_ingredients" /\ Val(call).pc = "sorted" =>
        \E zones \in WholeRuleSets : DerivedFrom(zones)

====
